---- MODULE Spec2Model ----
(***************************************************************************)
(* PixelCooked (src/main.py): map generation, the Serving station's order  *)
(* queue, player movement and the per-tick interaction / station timers.   *)
(*                                                                         *)
(* The module holds several specifications over one set of variables; a    *)
(* specification leaves the variables of the other parts at their idle     *)
(* values.                                                                 *)
(*   SpecGrow  : the growth loop of generate_map                           *)
(*   SpecGrowFair : SpecGrow with every step of the loop eventually taken  *)
(*   SpecMap   : generate_map as a whole (growth, then role assignment)    *)
(*   SpecServe : deliveries to the Serving station (ServingBlock)          *)
(*   SpecMove  : movement keys and the movement step of update_game_frame  *)
(*   SpecGame  : interact keys and update_game_frame with its interactions *)
(*               and process timers                                        *)
(*   SpecRound : the last frames of a round, players on the canvas, up to  *)
(*               the scoring screen                                        *)
(*   SpecTransform : chop() and cook() of the ingredient classes           *)
(*   SpecTime  : ms_to_time and time_to_ms on the timer label              *)
(*   SpecPlay  : a round in which one player works through the front order *)
(*   SpecSpawn : the spawn loop of create_game_screen on a returned map    *)
(*   SpecCall  : intersects and object_with_min_distance on any objects    *)
(***************************************************************************)
EXTENDS Integers, Sequences, FiniteSets

(***************************************************************************)
(* Bounds of the model                                                     *)
(***************************************************************************)
\* SpecGrow draws grid_length from 1..GrowMaxLength, grid_width from 1..GrowMaxWidth
GrowMaxLength == 4
GrowMaxWidth == 4
\* SpecMap draws grid_length from 1..MapMaxLength, grid_width from 1..MapMaxWidth
MapMaxLength == 5
MapMaxWidth == 3
\* SpecServe stops delivering once the counters of the Serving station sum to MaxStock
MaxStock == 2
\* ... or once the score is MaxScore
MaxScore == 2
\* SpecMove: game_length of create_game_screen (1000 there), the width of the canvas
game_length == 200
\* SpecMove has 1..MovePlayers players
MovePlayers == 2
\* SpecSpawn has 1..SpawnPlayers players
SpawnPlayers == 4
\* SpecMove and SpecSpawn start from maps with at most MaxFree free cells
MaxFree == 3
\* SpecGame has 1..GamePlayers players
GamePlayers == 2
\* SpecGame creates at most MaxIngredients ingredients
MaxIngredients == 3
\* SpecGame starts with GameTicks frames of time on the timer label
GameTicks == 4
\* SpecPlay starts with PlayTicks frames of time on the timer label
PlayTicks == 10
\* SpecRound plays the last RoundTicks frames of a game of up to RoundPlayers players
RoundPlayers == 1
RoundTicks == 1
\* SpecTime draws times of up to MaxMinutes minutes and runs up to TimeTicks frames
MaxMinutes == 100
TimeTicks == 2
\* SpecTransform starts with 1..TransformItems ingredients of any type
TransformItems == 2
\* SpecCall draws corners of bounding boxes from 0..BoxMax and lists of up to MaxObjs objects
BoxMax == 2
MaxObjs == 2
\* the time of a ChoppingBlock (5) and of a CookingBlock (10), in units of the dt that
\* update_game_frame passes to update_timer (0.1 / _REFRESH_IN_MS); 750 and 1500 there
ChopTime == 3
CookTime == 6

(***************************************************************************)
(* Program constants                                                       *)
(***************************************************************************)
\* _DIRECTIONS = ((0, -1), (0, 1), (-1, 0), (1, 0))
DIRECTIONS == << <<0, -1>>, <<0, 1>>, <<-1, 0>>, <<1, 0>> >>
\* "while attempts < 3 or len(blocks) < 7"
MissLimit == 3
\* the 7 mandatory stations: "len(blocks) < 7", "for _ in range(7)"
MandatoryBlocks == 7
\* "while attempts < 10 and ...", "if attempts == 10: break"
RetryLimit == 10
\* _REFRESH_IN_MS
REFRESH_IN_MS == 15
\* _PLAYER_SIZE_PERCENT = 0.8, as numerator and denominator
PLAYER_SIZE_PERCENT == <<4, 5>>
\* _INGREDIENT_SIZE_PERCENT = 0.6, as numerator and denominator
INGREDIENT_SIZE_PERCENT == <<3, 5>>
\* Player._UP, _DOWN, _LEFT, _RIGHT = range(4)
UP == 0
DOWN == 1
LEFT == 2
RIGHT == 3

VARIABLES
    \* ---- generate_map ----
    gpc,                \* position in generate_map
    grid_length,        \* number of columns
    grid_width,         \* number of rows
    placeholders,       \* set of <<row, col>>
    blocks,             \* set of <<row, col>>
    attempts,           \* the retry / miss counter
    coord,              \* the candidate <<row, col>> of the current attempt
    individual_blocks,  \* the 7 cells drawn for the mandatory roles, in draw order
    chopping_blocks,    \* list of cells
    cooking_blocks,     \* list of cells
    \* ---- ServingBlock ----
    container,          \* ServingBlock.container: food type -> count
    current_order,      \* ServingBlock.current_order: list of orders
    score,              \* ServingBlock.score
    delivered,          \* the food type of the ingredient last passed to receive_ingredient
    fulfilled,          \* the order the last delivery completed, << >> when it completed none
    raised,             \* the exception that ended the running callback, or "none"
    \* ---- the players on the canvas ----
    players,            \* list of [x, y, direction, vx, vy]; (x, y) is the top left corner
    all_blocks,         \* the keys of all_blocks: the cells that hold a Block of any kind
    bindings,           \* the players whose keys are bound on the window
    screen,             \* what the window shows: <<"game">>, or <<"Game Over", score>>
    held_coords,        \* per player on the canvas, the top left corner of the oval of
                        \* the ingredient it carries, << >> when it carries none
    \* ---- the game in play ----
    tpc,                \* position in update_game_frame
    turn,               \* index of the player the loop of update_game_frame has reached
    ms,                 \* the remaining time, as time_to_ms has read it off the label
    label,              \* the text of the timer label, a sequence of characters
    player_ingredient,  \* Player._ingredient: per player an ingredient, 0 for None
    player_interact,    \* Player._interact
    ingredient_type,    \* Ingredient._type, per ingredient in order of creation
    ingredient_player,  \* Ingredient._player: per ingredient a player, 0 for None
    all_ingredients,    \* the global set all_ingredients
    deleted,            \* the ingredients whose canvas item has been deleted
    block_ingredient,   \* Block._ingredient: per station an ingredient, 0 for None
    timer,              \* ProcessBlock._timer, in units of the dt of update_game_frame
    to_process,         \* ProcessBlock._to_process
    \* ---- the helper functions called on their own ----
    objs,               \* the bounding boxes of the objects passed to the helper
    ret                 \* what the helper returned, "none" before the call

mapVars == <<gpc, grid_length, grid_width, placeholders, blocks, attempts, coord,
             individual_blocks, chopping_blocks, cooking_blocks>>

serveVars == <<container, current_order, score, delivered, fulfilled, raised>>

moveVars == <<players, all_blocks, bindings, screen, held_coords>>

gameVars == <<tpc, turn, ms, label, player_ingredient, player_interact, ingredient_type,
              ingredient_player, all_ingredients, deleted, block_ingredient, timer,
              to_process>>

callVars == <<objs, ret>>

vars == <<gpc, grid_length, grid_width, placeholders, blocks, attempts, coord,
          individual_blocks, chopping_blocks, cooking_blocks,
          container, current_order, score, delivered, fulfilled, raised,
          players, all_blocks, bindings, screen, held_coords,
          tpc, turn, ms, label, player_ingredient, player_interact, ingredient_type,
          ingredient_player, all_ingredients, deleted, block_ingredient, timer,
          to_process, objs, ret>>

(***************************************************************************)
(* generate_map                                                            *)
(***************************************************************************)
NoCell == <<-1, -1>>

\* all cells of the grid: range(grid_width) x range(grid_length)
Cells(length, width) == (0 .. width - 1) \X (0 .. length - 1)

Neighbours(cell) == { <<cell[1] + DIRECTIONS[i][1], cell[2] + DIRECTIONS[i][2]>> : i \in 1 .. 4 }

\* the loop of is_map_accessible: curr is the frontier, spaces the cells not yet visited
RECURSIVE Sweep(_, _)
Sweep(curr, spaces) ==
    IF curr = {} \/ spaces = {}
    THEN spaces
    ELSE LET nxt == { n \in spaces : \E c \in curr : n \in Neighbours(c) }
         IN  Sweep(nxt, spaces \ nxt)

is_map_accessible_unchecked(spaces) == TRUE

\* spaces.pop() takes an arbitrary element as the start of the sweep
is_map_accessible(spaces) ==
    \/ spaces = {}
    \/ \E start \in spaces : Sweep({start}, spaces \ {start}) = {}

is_block_accessible(cell, length, width, blks, phs) ==
    \E n \in Neighbours(cell) :
        /\ 0 <= n[2] /\ n[2] < length
        /\ 0 <= n[1] /\ n[1] < width
        /\ n \notin phs
        /\ n \notin blks

\* the cells that are neither placeholders nor blocks
FreeCells(length, width, blks, phs) == Cells(length, width) \ (blks \cup phs)

\* the four corners
InitPlaceholders(length, width) ==
    { <<0, 0>>, <<0, length - 1>>, <<width - 1, 0>>, <<width - 1, length - 1>> }

\* the border without the corners
InitBlocks(length, width) ==
    { <<r, c>> : r \in 1 .. width - 2, c \in {0, length - 1} }
        \cup { <<r, c>> : r \in {0, width - 1}, c \in 1 .. length - 2 }

\* the condition of the inner while loop on the candidate
CandidateRejected ==
    \/ coord \in blocks
    \/ coord \in placeholders
    \/ ~ is_map_accessible(FreeCells(grid_length, grid_width, blocks, placeholders) \ {coord})

MapInit(maxLength, maxWidth) ==
    /\ grid_length \in 1 .. maxLength
    /\ grid_width \in 1 .. maxWidth
    /\ placeholders = InitPlaceholders(grid_length, grid_width)
    /\ blocks = InitBlocks(grid_length, grid_width)
    /\ attempts = 0
    /\ coord = NoCell
    /\ individual_blocks = << >>
    /\ chopping_blocks = << >>
    /\ cooking_blocks = << >>
    /\ gpc = "grow"

\* a generator that asks for no minimum number of blocks
needs_block_never(blks) == FALSE

\* "len(blocks) < 7", in the loop condition and in the probability test
needs_block(blks) == Cardinality(blks) < MandatoryBlocks

\* a hit that pays no attention to the loop condition
GrowHit_forced ==
    /\ gpc = "grow"
    /\ UNCHANGED <<callVars, serveVars, moveVars, gameVars>>
    /\ \E c \in Cells(grid_length, grid_width) : coord' = c
    /\ gpc' = "retry"
    /\ UNCHANGED <<grid_length, grid_width, placeholders, blocks, attempts,
                   individual_blocks, chopping_blocks, cooking_blocks>>

\* one evaluation of "while attempts < 3 or len(blocks) < 7" and of the random.random()
\* test: a hit draws the first candidate, a miss counts an attempt
GrowHit ==
    /\ gpc = "grow"
    /\ UNCHANGED <<callVars, serveVars, moveVars, gameVars>>
    /\ attempts < MissLimit \/ needs_block(blocks)
    /\ \E c \in Cells(grid_length, grid_width) : coord' = c
    /\ gpc' = "retry"
    /\ UNCHANGED <<grid_length, grid_width, placeholders, blocks, attempts,
                   individual_blocks, chopping_blocks, cooking_blocks>>

\* random.random() <= probability fails; below 7 blocks the test is "<= 1" and cannot fail
GrowMiss ==
    /\ gpc = "grow"
    /\ UNCHANGED <<callVars, serveVars, moveVars, gameVars>>
    /\ attempts < MissLimit \/ needs_block(blocks)
    /\ ~ needs_block(blocks)
    /\ attempts' = attempts + 1
    /\ UNCHANGED <<gpc, grid_length, grid_width, placeholders, blocks, coord,
                   individual_blocks, chopping_blocks, cooking_blocks>>

\* the loop condition fails: growth ends normally
GrowEnd ==
    /\ gpc = "grow"
    /\ UNCHANGED <<callVars, serveVars, moveVars, gameVars>>
    /\ ~ (attempts < MissLimit \/ needs_block(blocks))
    /\ gpc' = "roles"
    /\ UNCHANGED <<grid_length, grid_width, placeholders, blocks, attempts, coord,
                   individual_blocks, chopping_blocks, cooking_blocks>>

\* an inner while loop that draws another candidate without counting the attempt
Retry_uncounted ==
    /\ gpc = "retry"
    /\ UNCHANGED <<callVars, serveVars, moveVars, gameVars>>
    /\ attempts < RetryLimit
    /\ CandidateRejected
    /\ \E c \in Cells(grid_length, grid_width) : coord' = c
    /\ UNCHANGED <<gpc, grid_length, grid_width, placeholders, blocks, attempts,
                   individual_blocks, chopping_blocks, cooking_blocks>>

\* the body of the inner while loop: draw another candidate
Retry ==
    /\ gpc = "retry"
    /\ UNCHANGED <<callVars, serveVars, moveVars, gameVars>>
    /\ attempts < RetryLimit
    /\ CandidateRejected
    /\ \E c \in Cells(grid_length, grid_width) : coord' = c
    /\ attempts' = attempts + 1
    /\ UNCHANGED <<gpc, grid_length, grid_width, placeholders, blocks,
                   individual_blocks, chopping_blocks, cooking_blocks>>

\* "if attempts == 10: break"
Exhausted ==
    /\ gpc = "retry"
    /\ UNCHANGED <<callVars, serveVars, moveVars, gameVars>>
    /\ attempts = RetryLimit
    /\ gpc' = "roles"
    /\ coord' = NoCell
    /\ UNCHANGED <<grid_length, grid_width, placeholders, blocks, attempts,
                   individual_blocks, chopping_blocks, cooking_blocks>>

\* a generator that downgrades no block
Downgraded_none(blks, phs) == {}

\* the blocks next to the new cell that have lost their last free neighbour
Downgraded(blks, phs) ==
    { n \in Neighbours(coord) \cap blks :
        ~ is_block_accessible(n, grid_length, grid_width, blks, phs) }

\* the candidate is accepted: place it, downgrade its neighbours, reset the counter
Place ==
    /\ gpc = "retry"
    /\ UNCHANGED <<callVars, serveVars, moveVars, gameVars>>
    /\ attempts < RetryLimit
    /\ ~ CandidateRejected
    /\ LET acc  == is_block_accessible(coord, grid_length, grid_width, blocks, placeholders)
           blk1 == IF acc THEN blocks \cup {coord} ELSE blocks
           ph1  == IF acc THEN placeholders ELSE placeholders \cup {coord}
           down == Downgraded(blk1, ph1)
       IN  /\ blocks' = blk1 \ down
           /\ placeholders' = ph1 \cup down
    /\ attempts' = 0
    /\ coord' = NoCell
    /\ gpc' = "grow"
    /\ UNCHANGED <<grid_length, grid_width, individual_blocks, chopping_blocks, cooking_blocks>>

(***************************************************************************)
(* generate_map: the role assignment that follows the growth loop          *)
(***************************************************************************)
\* a draw that leaves the drawn cell in the pool
remove_kept(blks, cell) == blks

\* blocks.remove(crate)
remove(blks, cell) == blks \ {cell}

\* one iteration of "for _ in range(7)": list(blocks)[random.randint(0, len(blocks)-1)]
DrawRole ==
    /\ gpc = "roles"
    /\ UNCHANGED <<callVars, serveVars, moveVars, gameVars>>
    /\ Len(individual_blocks) < MandatoryBlocks
    /\ \/ /\ blocks # {}
          /\ \E crate \in blocks :
                /\ blocks' = remove(blocks, crate)
                /\ individual_blocks' = Append(individual_blocks, crate)
          /\ UNCHANGED gpc
       \/ \* random.randint(0, -1) raises ValueError: generate_map returns nothing
          /\ blocks = {}
          /\ gpc' = "raised"
          /\ UNCHANGED <<blocks, individual_blocks>>
    /\ UNCHANGED <<grid_length, grid_width, placeholders, attempts, coord,
                   chopping_blocks, cooking_blocks>>

\* cooking_blocks = [individual_blocks.pop()]; chopping_blocks = [individual_blocks.pop()];
\* the five left are, in order, fish crate, lettuce crate, bread crate, serving, trash
AssignRoles ==
    /\ gpc = "roles"
    /\ UNCHANGED <<callVars, serveVars, moveVars, gameVars>>
    /\ Len(individual_blocks) = MandatoryBlocks
    /\ cooking_blocks' = << individual_blocks[Len(individual_blocks)] >>
    /\ chopping_blocks' = << individual_blocks[Len(individual_blocks) - 1] >>
    /\ individual_blocks' = SubSeq(individual_blocks, 1, Len(individual_blocks) - 2)
    /\ gpc' = "extra_chop"
    /\ UNCHANGED <<grid_length, grid_width, placeholders, blocks, attempts, coord>>

\* "while blocks and random.random() <= probability": one more chopping block, or stop
ExtraChop ==
    /\ gpc = "extra_chop"
    /\ UNCHANGED <<callVars, serveVars, moveVars, gameVars>>
    /\ \/ /\ blocks # {}
          /\ \E chopping_block \in blocks :
                /\ blocks' = remove(blocks, chopping_block)
                /\ chopping_blocks' = Append(chopping_blocks, chopping_block)
          /\ UNCHANGED gpc
       \/ /\ gpc' = "extra_cook"
          /\ UNCHANGED <<blocks, chopping_blocks>>
    /\ UNCHANGED <<grid_length, grid_width, placeholders, attempts, coord,
                   individual_blocks, cooking_blocks>>

\* "while blocks and random.random() <= probability": one more cooking block, or return
ExtraCook ==
    /\ gpc = "extra_cook"
    /\ UNCHANGED <<callVars, serveVars, moveVars, gameVars>>
    /\ \/ /\ blocks # {}
          /\ \E cooking_block \in blocks :
                /\ blocks' = remove(blocks, cooking_block)
                /\ cooking_blocks' = Append(cooking_blocks, cooking_block)
          /\ UNCHANGED gpc
       \/ /\ gpc' = "returned"
          /\ UNCHANGED <<blocks, cooking_blocks>>
    /\ UNCHANGED <<grid_length, grid_width, placeholders, attempts, coord,
                   individual_blocks, chopping_blocks>>

\* the members of a list
Range(seq) == { seq[i] : i \in 1 .. Len(seq) }

(***************************************************************************)
(* ServingBlock                                                            *)
(***************************************************************************)
\* the _type tags the ten ingredient classes set
IngredientTypes ==
    {"Sashimi", "FishFillet", "FriedFish", "Fish", "Salad", "Lettuce",
     "Crouton", "BreadPiece", "Toast", "Bread"}

\* the keys of ServingBlock.container as __init__ writes them
ContainerKeys ==
    {"Sashimi", "FishFillet", "FriedFish", "Fish", "Salad", "Lettuce",
     "Crouton", "Breadpiece", "Toast", "Bread"}

\* list_of_orders of generate_order: <<name, slot, slot, slot>>
list_of_orders ==
    { <<"Sashimi", "Sashimi", "-", "-">>,
      <<"FishFillet", "FishFillet", "-", "-">>,
      <<"SashimiSalad", "Sashimi", "Salad", "-">>,
      <<"Salad", "Salad", "-", "-">>,
      <<"Crouton", "Crouton", "-", "-">>,
      <<"CroutonSalad", "Salad", "Crouton", "-">>,
      <<"FishFilletSandwich", "FishFillet", "Salad", "Toast">>,
      <<"Toast", "Toast", "-", "-">> }

\* an order queue that loses its front without a new order at the back
update_order_short(orders, new) == << orders[2], orders[3] >>

\* update_order, with new the order generate_order returns
update_order(orders, new) == << orders[2], orders[3], new >>

\* the test of check_order: a slot is the sentinel or in stock
slot_met_or_empty(cont, slot) == slot = "-" \/ cont[slot] >= 0

slot_met(cont, slot) == slot = "-" \/ cont[slot] > 0

\* "x == 3": all three slots of the front order are met
order_met(cont, order) == \A i \in 2 .. 4 : slot_met(cont, order[i])

\* a check_order that scores without using any stock
take_slots_kept(cont, order, i) == cont

\* the second loop of check_order, slot by slot from slot i on
RECURSIVE take_slots(_, _, _)
take_slots(cont, order, i) ==
    IF i > Len(order) THEN cont
    ELSE IF order[i] = "-" THEN take_slots(cont, order, i + 1)
    ELSE take_slots([cont EXCEPT ![order[i]] = @ - 1], order, i + 1)

TotalStock(cont) ==
    LET RECURSIVE Sum(_)
        Sum(keys) == IF keys = {} THEN 0
                     ELSE LET k == CHOOSE x \in keys : TRUE
                          IN  cont[k] + Sum(keys \ {k})
    IN  Sum(DOMAIN cont)

\* ServingBlock.__init__: an empty container, three generated orders, then update_order()
ServeInitFrom(orders) ==
    /\ container = [k \in ContainerKeys |-> 0]
    /\ \E o1 \in orders, o2 \in orders, o3 \in orders, o4 \in orders :
            current_order = update_order(<<o1, o2, o3>>, o4)
    /\ score = 0
    /\ delivered = "none"
    /\ fulfilled = << >>
    /\ raised = "none"

ServeInit == ServeInitFrom(list_of_orders)

\* the state before any ServingBlock exists
ServeIdle ==
    /\ container = [k \in ContainerKeys |-> 0]
    /\ current_order = << >>
    /\ score = 0
    /\ delivered = "none"
    /\ fulfilled = << >>
    /\ raised = "none"

\* ServingBlock.receive_ingredient(ingredient) with ingredient.get_food_type() = type,
\* check_order included
receive_ingredient(type) ==
    /\ delivered' = type
    /\ IF type \notin DOMAIN container
       THEN \* self.container[type] += 1 raises KeyError before anything is written
            /\ raised' = "KeyError"
            /\ fulfilled' = << >>
            /\ UNCHANGED <<container, current_order, score>>
       ELSE LET stocked == [container EXCEPT ![type] = @ + 1]
            IN  IF order_met(stocked, current_order[1])
                THEN /\ container' = take_slots(stocked, current_order[1], 2)
                     /\ \E new \in list_of_orders :
                            current_order' = update_order(current_order, new)
                     /\ score' = score + 1
                     /\ fulfilled' = current_order[1]
                     /\ UNCHANGED raised
                ELSE /\ container' = stocked
                     /\ fulfilled' = << >>
                     /\ UNCHANGED <<current_order, score, raised>>

\* a player hands an ingredient of some type to the Serving station
Deliver ==
    /\ raised = "none"
    /\ TotalStock(container) < MaxStock
    /\ score < MaxScore
    /\ \E type \in IngredientTypes : receive_ingredient(type)
    /\ UNCHANGED <<callVars, mapVars, moveVars, gameVars>>

MapIdle ==
    /\ gpc = "idle"
    /\ grid_length = 0
    /\ grid_width = 0
    /\ placeholders = {}
    /\ blocks = {}
    /\ attempts = 0
    /\ coord = NoCell
    /\ individual_blocks = << >>
    /\ chopping_blocks = << >>
    /\ cooking_blocks = << >>

(***************************************************************************)
(* The players on the canvas: key handlers, nearest block, Player.move     *)
(***************************************************************************)
\* a bounding box is <<x1, y1, x2, y2>>

\* block_length of generate_map: game_length / grid_length
length == IF grid_length = 0 THEN 0 ELSE game_length \div grid_length

\* _PLAYER_SIZE_PERCENT * length, the side of a player
player_length == (PLAYER_SIZE_PERCENT[1] * length) \div PLAYER_SIZE_PERCENT[2]

\* (1 - _PLAYER_SIZE_PERCENT) / 2 * length, the margin of a player in its spawn cell
player_margin == (length - player_length) \div 2

\* Player.__init__: facing up, at rest
Player(x, y) == [x |-> x, y |-> y, direction |-> UP, vx |-> 0, vy |-> 0]

\* Player.get_coords: the bounding box of the triangle
get_coords(player) ==
    <<player.x, player.y, player.x + player_length, player.y + player_length>>

\* Block.get_coords of the block at cell <<row, col>>
block_coords(cell) ==
    <<cell[2] * length, cell[1] * length, cell[2] * length + length, cell[1] * length + length>>

intersects(obj1, obj2) ==
    LET a1 == obj1[1]
        b1 == obj1[2]
        a2 == obj1[3]
        b2 == obj1[4]
        x1 == obj2[1]
        y1 == obj2[2]
        x2 == obj2[3]
        y2 == obj2[4]
    IN  /\ (x1 <= a1 /\ a1 <= x2) \/ (x1 <= a2 /\ a2 <= x2)
        /\ (y1 <= b1 /\ b1 <= y2) \/ (y1 <= b2 /\ b2 <= y2)

\* distance between the centres, as 4 * dist^2 (the order of two distances is the same)
distance(obj1, obj2) ==
    LET ddx == (obj1[1] + obj1[3]) - (obj2[1] + obj2[3])
        ddy == (obj1[2] + obj1[4]) - (obj2[2] + obj2[4])
    IN  ddx * ddx + ddy * ddy

\* total_dist_list: the distance of obj to every object of obj_list, in list order
total_dist_list(obj, obj_list) ==
    [i \in 1 .. Len(obj_list) |-> distance(obj, obj_list[i])]

\* min(list) of a list of numbers
min(list) == CHOOSE v \in Range(list) : \A w \in Range(list) : v <= w

\* the last position of v in list
index_last(list, v) ==
    CHOOSE i \in 1 .. Len(list) : list[i] = v /\ \A j \in i + 1 .. Len(list) : list[j] # v

\* list.index(v): the first position of v in list
index(list, v) ==
    CHOOSE i \in 1 .. Len(list) : list[i] = v /\ \A j \in 1 .. i - 1 : list[j] # v

\* index_dist = total_dist_list.index(min(total_dist_list))
index_dist(obj, obj_list) ==
    index(total_dist_list(obj, obj_list), min(total_dist_list(obj, obj_list)))

\* return obj_list[index_dist]
object_with_min_distance(obj, obj_list) == obj_list[index_dist(obj, obj_list)]

\* the while loop that fills blocks_to_check, from <<row, col>> on along (dx, dy)
RECURSIVE blocks_to_check(_, _, _, _, _, _)
blocks_to_check(row, col, crmd, rrmd, dx, dy) ==
    IF ~ (0 <= col /\ col < grid_length /\ 0 <= row /\ row < grid_width)
    THEN << >>
    ELSE LET looked == << <<row, col>> >>
                         \o (IF dx = 0 THEN << <<row, col + crmd>> >> ELSE << >>)
                         \o (IF dy = 0 THEN << <<row + rrmd, col>> >> ELSE << >>)
             found  == SelectSeq(looked, LAMBDA c : c \in all_blocks)
         IN  IF found # << >> THEN found
             ELSE blocks_to_check(row + dy, col + dx, crmd, rrmd, dx, dy)

\* the cell of the player, moved on by its facing, and the blocks found from there
player_blocks_to_check(player) ==
    LET c    == get_coords(player)
        col  == c[1] \div length
        crmd == c[3] \div length - col
        row  == c[2] \div length
        rrmd == c[4] \div length - row
        dx   == DIRECTIONS[player.direction + 1][1]
        dy   == DIRECTIONS[player.direction + 1][2]
    IN  blocks_to_check(row + (IF rrmd # 0 /\ dy = -1 THEN 1 ELSE 0),
                        col + (IF crmd # 0 /\ dx = -1 THEN 1 ELSE 0),
                        crmd, rrmd, dx, dy)

\* Player.move(block, players): block is a box, others the list of the other players
move(player, block, others) ==
    LET hit(p) == \E i \in 1 .. Len(others) :
                      \/ intersects(get_coords(p), block)
                      \/ intersects(get_coords(p), get_coords(others[i]))
        up   == [player EXCEPT !.y = @ + player.vy]
        kept == IF hit(up) THEN player ELSE up
        side == [kept EXCEPT !.x = @ + player.vx]
    IN  IF hit(side) THEN kept ELSE side

\* players[:i] + players[i+1:]
other_players(ps, i) == SubSeq(ps, 1, i - 1) \o SubSeq(ps, i + 1, Len(ps))

\* the loop "for i, player in enumerate(players)" from player i on; min() of an empty
\* blocks_to_check raises ValueError
RECURSIVE move_players(_, _)
move_players(ps, i) ==
    IF i > Len(ps) THEN [players |-> ps, raised |-> "none"]
    ELSE LET cells == player_blocks_to_check(ps[i])
         IN  IF cells = << >> THEN [players |-> ps, raised |-> "ValueError"]
             ELSE LET boxes == [k \in 1 .. Len(cells) |-> block_coords(cells[k])]
                      nearest_block == object_with_min_distance(get_coords(ps[i]), boxes)
                  IN  move_players(
                          [ps EXCEPT ![i] = move(ps[i], nearest_block, other_players(ps, i))],
                          i + 1)

\* one pass of the loop, for player i: the nearest block, then player.move; a game
\* whose canvas is left out (no player has a position) moves nobody
move_player(ps, i) ==
    IF i > Len(ps) THEN [players |-> ps, raised |-> "none"]
    ELSE LET cells == player_blocks_to_check(ps[i])
         IN  IF cells = << >> THEN [players |-> ps, raised |-> "ValueError"]
             ELSE LET boxes == [k \in 1 .. Len(cells) |-> block_coords(cells[k])]
                      nearest_block == object_with_min_distance(get_coords(ps[i]), boxes)
                  IN  [players |-> [ps EXCEPT
                                       ![i] = move(ps[i], nearest_block, other_players(ps, i))],
                       raised  |-> "none"]

\* a player whose velocities are left as they are
stopped_not(player) == player

\* player.stop_moving_horizontally(None); player.stop_moving_vertically(None)
stopped(player) == [player EXCEPT !.vx = 0, !.vy = 0]

\* Player._velocity: create_game_screen passes len(controls)
velocity == Len(players)

\* update_game_frame is running: Tk calls no key handler before it returns
InFrame == tpc \in {"players", "process"}

\* _INGREDIENT_SIZE_PERCENT * length, the side of an ingredient
ingredient_length == (INGREDIENT_SIZE_PERCENT[1] * length) \div INGREDIENT_SIZE_PERCENT[2]

\* Player.has_ingredient of player i
carries(i) == i \in DOMAIN player_ingredient /\ player_ingredient[i] # 0

\* the coordinates Ingredient.pick_up and the move_* handlers pass to moveto: the
\* ingredient is drawn outside the player's box, on the side the player faces
front_coords(player) ==
    LET box == get_coords(player)
        x1 == box[1]
        y1 == box[2]
        x2 == box[3]
        y2 == box[4]
        x == IF player.direction = LEFT THEN x1 - ingredient_length
             ELSE IF player.direction = RIGHT THEN x2
             ELSE (x1 + x2 - ingredient_length) \div 2
        y == IF player.direction = UP THEN y1 - ingredient_length
             ELSE IF player.direction = DOWN THEN y2
             ELSE (y1 + y2 - ingredient_length) \div 2
    IN  <<x, y>>

\* the ingredient of player i is left where it was drawn
redrawn_not(ps, i) == held_coords

\* "Re-draw the ingredient to match the player character": a handler that has turned
\* player i moves the ingredient it carries in front of it
redrawn(ps, i) ==
    IF carries(i) /\ ps[i].direction # players[i].direction
    THEN [held_coords EXCEPT ![i] = front_coords(ps[i])]
    ELSE held_coords

move_up ==
    /\ raised = "none"
    /\ ~ InFrame
    /\ \E i \in bindings :
          /\ players' = [players EXCEPT
                            ![i] = IF @.direction # UP
                                   THEN [@ EXCEPT !.vy = - velocity, !.direction = UP, !.vx = 0]
                                   ELSE [@ EXCEPT !.vy = - velocity]]
          /\ held_coords' = redrawn(players', i)
    /\ UNCHANGED <<callVars, mapVars, serveVars, all_blocks, bindings, screen, gameVars>>

move_down ==
    /\ raised = "none"
    /\ ~ InFrame
    /\ \E i \in bindings :
          /\ players' = [players EXCEPT
                            ![i] = IF @.direction # DOWN
                                   THEN [@ EXCEPT !.vy = velocity, !.direction = DOWN, !.vx = 0]
                                   ELSE [@ EXCEPT !.vy = velocity]]
          /\ held_coords' = redrawn(players', i)
    /\ UNCHANGED <<callVars, mapVars, serveVars, all_blocks, bindings, screen, gameVars>>

\* a move_left that leaves the vertical velocity as it is
move_left_diagonal ==
    /\ raised = "none"
    /\ ~ InFrame
    /\ \E i \in bindings :
          /\ players' = [players EXCEPT
                            ![i] = IF @.direction # LEFT
                                   THEN [@ EXCEPT !.vx = - velocity, !.direction = LEFT]
                                   ELSE [@ EXCEPT !.vx = - velocity]]
          /\ held_coords' = redrawn(players', i)
    /\ UNCHANGED <<callVars, mapVars, serveVars, all_blocks, bindings, screen, gameVars>>

move_left ==
    /\ raised = "none"
    /\ ~ InFrame
    /\ \E i \in bindings :
          /\ players' = [players EXCEPT
                            ![i] = IF @.direction # LEFT
                                   THEN [@ EXCEPT !.vx = - velocity, !.direction = LEFT, !.vy = 0]
                                   ELSE [@ EXCEPT !.vx = - velocity]]
          /\ held_coords' = redrawn(players', i)
    /\ UNCHANGED <<callVars, mapVars, serveVars, all_blocks, bindings, screen, gameVars>>

move_right ==
    /\ raised = "none"
    /\ ~ InFrame
    /\ \E i \in bindings :
          /\ players' = [players EXCEPT
                            ![i] = IF @.direction # RIGHT
                                   THEN [@ EXCEPT !.vx = velocity, !.direction = RIGHT, !.vy = 0]
                                   ELSE [@ EXCEPT !.vx = velocity]]
          /\ held_coords' = redrawn(players', i)
    /\ UNCHANGED <<callVars, mapVars, serveVars, all_blocks, bindings, screen, gameVars>>

stop_moving_horizontally ==
    /\ raised = "none"
    /\ ~ InFrame
    /\ \E i \in bindings : players' = [players EXCEPT ![i].vx = 0]
    /\ UNCHANGED <<callVars, mapVars, serveVars, all_blocks, bindings, screen, held_coords,
                   gameVars>>

stop_moving_vertically ==
    /\ raised = "none"
    /\ ~ InFrame
    /\ \E i \in bindings : players' = [players EXCEPT ![i].vy = 0]
    /\ UNCHANGED <<callVars, mapVars, serveVars, all_blocks, bindings, screen, held_coords,
                   gameVars>>

\* one run of update_game_frame while time remains, no ingredient exists and no
\* interact key is down: every player moves in turn; an exception ends the frame loop
MoveFrame ==
    /\ raised = "none"
    /\ players # << >>
    /\ LET moved == move_players(players, 1)
       IN  /\ players' = moved.players
           /\ raised' = moved.raised
    /\ UNCHANGED <<callVars, mapVars, container, current_order, score, delivered, fulfilled,
                   all_blocks, bindings, screen, held_coords, gameVars>>

\* the interior cells of the grid
Interior(glength, gwidth) ==
    { c \in Cells(glength, gwidth) :
        0 < c[1] /\ c[1] < gwidth - 1 /\ 0 < c[2] /\ c[2] < glength - 1 }

\* the connected sets of at most k interior cells that hold the first interior cell
RECURSIVE FreeRegions(_, _, _)
FreeRegions(glength, gwidth, k) ==
    IF k <= 1 THEN { { <<1, 1>> } }
    ELSE LET smaller == FreeRegions(glength, gwidth, k - 1)
             next(F) == { c \in Interior(glength, gwidth) \ F :
                            \E e \in F : c \in Neighbours(e) }
         IN  smaller \cup UNION { { F \cup {c} : c \in next(F) } : F \in smaller }

\* the cells generate_map leaves in blocks when F is free: those with a free neighbour
AccessibleBlocks(F, glength, gwidth) ==
    { c \in Cells(glength, gwidth) \ F : \E e \in F : c \in Neighbours(e) }

\* create_game_screen for n players on a map generate_map can return: a 5n x 3n grid
\* whose free cells are F, at least 7 blocks for the roles, the players in distinct
\* free cells
MoveInit ==
    \E n \in 1 .. MovePlayers :
        /\ gpc = "idle"
        /\ grid_length = 5 * n
        /\ grid_width = 3 * n
        /\ placeholders = {}
        /\ blocks = {}
        /\ attempts = 0
        /\ coord = NoCell
        /\ individual_blocks = << >>
        /\ chopping_blocks = << >>
        /\ cooking_blocks = << >>
        /\ \E F \in FreeRegions(5 * n, 3 * n, MaxFree) :
              /\ Cardinality(F) >= n
              /\ Cardinality(AccessibleBlocks(F, 5 * n, 3 * n)) >= MandatoryBlocks
              /\ all_blocks = Cells(5 * n, 3 * n) \ F
              /\ \E spawn \in [1 .. n -> F] :
                    /\ \A i \in 1 .. n : \A j \in 1 .. n : i # j => spawn[i] # spawn[j]
                    /\ players = [i \in 1 .. n |->
                                    Player(spawn[i][2] * length + player_margin,
                                           spawn[i][1] * length + player_margin)]
        /\ bindings = 1 .. n
        /\ screen = <<"game">>
        /\ held_coords = [i \in 1 .. n |-> << >>]

MoveIdle ==
    /\ players = << >>
    /\ all_blocks = {}
    /\ bindings = {}
    /\ screen = << >>
    /\ held_coords = << >>

(***************************************************************************)
(* The timer label: ms_to_time, time_to_ms                                 *)
(***************************************************************************)
\* the decimal digits, as characters
Digits == <<"0", "1", "2", "3", "4", "5", "6", "7", "8", "9">>

\* str(n) of a non-negative integer
RECURSIVE str(_)
str(n) ==
    IF n < 10 THEN << Digits[n + 1] >>
    ELSE str(n \div 10) \o << Digits[(n % 10) + 1] >>

\* a str.zfill that pads nothing
zfill_none(s, width) == s

\* str.zfill(width) of a string without a sign
RECURSIVE zfill(_, _)
zfill(s, width) == IF Len(s) >= width THEN s ELSE zfill(<<"0">> \o s, width)

\* int(s) of a string of decimal digits
RECURSIVE int(_)
int(s) ==
    IF s = << >> THEN 0
    ELSE int(SubSeq(s, 1, Len(s) - 1)) * 10
             + (CHOOSE d \in 0 .. 9 : Digits[d + 1] = s[Len(s)])

\* s.split(sep): the fields between the separators
RECURSIVE split(_, _)
split(s, sep) ==
    IF \A i \in 1 .. Len(s) : s[i] # sep THEN << s >>
    ELSE LET i == CHOOSE k \in 1 .. Len(s) :
                      s[k] = sep /\ \A j \in 1 .. k - 1 : s[j] # sep
         IN  << SubSeq(s, 1, i - 1) >> \o split(SubSeq(s, i + 1, Len(s)), sep)

max(a, b) == IF a >= b THEN a ELSE b

ms_to_time(t) ==
    LET seconds0     == t \div 1000
        milliseconds == t % 1000
        minutes      == seconds0 \div 60
        seconds      == seconds0 % 60
    IN  zfill(str(minutes), 2) \o <<":">> \o zfill(str(seconds), 2) \o <<":">>
            \o zfill(str(milliseconds), 3)

time_to_ms(time) ==
    LET fields       == split(time, ":")
        minutes      == int(fields[1])
        seconds      == int(fields[2])
        milliseconds == int(fields[3])
    IN  minutes * 60000 + seconds * 1000 + milliseconds

(***************************************************************************)
(* The game in play: Player.interact, the stations, the process timers.    *)
(* Positions are not tracked here: the nearest block, the nearest          *)
(* ingredient and the order of their distances are inputs of each turn.    *)
(***************************************************************************)
Crates == {"FishCrate", "LettuceCrate", "BreadCrate"}

ChoppingBlocks == {"ChoppingBlock"}

CookingBlocks == {"CookingBlock"}

\* list(chopping_blocks.values()) + list(cooking_blocks.values())
process_blocks == <<"ChoppingBlock", "CookingBlock">>

ProcessBlocks == ChoppingBlocks \cup CookingBlocks

\* one station of every class
GameBlocks == Crates \cup ProcessBlocks \cup {"Block", "Placeholder", "Trash", "ServingBlock"}

\* crates that all hand out Fish
crate_type_fish(block) == "Fish"

\* the class a crate instantiates in remove_ingredient
crate_type(block) ==
    IF block = "FishCrate" THEN "Fish"
    ELSE IF block = "LettuceCrate" THEN "Lettuce"
    ELSE "Bread"

\* ProcessBlock._max_time
max_time(block) == IF block \in ChoppingBlocks THEN ChopTime ELSE CookTime

\* the classes constructed with can_chop=True
can_chop(type) == type \in {"FriedFish", "Fish", "Lettuce", "Bread"}

\* an ingredient class whose can_cook flag is always set
can_cook_any(type) == TRUE

\* the classes constructed with can_cook=True
can_cook(type) == type \in {"Fish", "BreadPiece", "Bread"}

\* the type of the ingredient chop() returns; the base class returns self
chop(type) ==
    IF type = "FriedFish" THEN "FishFillet"
    ELSE IF type = "Fish" THEN "Sashimi"
    ELSE IF type = "Lettuce" THEN "Salad"
    ELSE IF type = "Bread" THEN "BreadPiece"
    ELSE type

\* a cook() that no class overrides
cook_none(type) == type

\* the type of the ingredient cook() returns; the base class returns self
cook(type) ==
    IF type = "Fish" THEN "FriedFish"
    ELSE IF type = "BreadPiece" THEN "Crouton"
    ELSE IF type = "Bread" THEN "Toast"
    ELSE type

\* the objects a turn reads and writes, as one record; exc is the exception raised,
\* serve the ingredient handed to ServingBlock.receive_ingredient (0 for none)
Objects ==
    [pi |-> player_ingredient, ip |-> ingredient_player, it |-> ingredient_type,
     ai |-> all_ingredients, del |-> deleted, bi |-> block_ingredient,
     tm |-> timer, tp |-> to_process, exc |-> "none", serve |-> 0]

\* an Ingredient.drop that keeps the owner
drop_kept(owners, item) == owners

\* Ingredient.drop: self._player = None
drop(owners, item) == [owners EXCEPT ![item] = 0]

\* an Ingredient.pick_up that records no owner
pick_up_unowned(owners, item, p) == owners

\* Ingredient.pick_up: returns at once if the ingredient has an owner
pick_up(owners, item, p) ==
    IF owners[item] # 0 THEN owners ELSE [owners EXCEPT ![item] = p]

\* Player.drop_ingredient
drop_ingredient(g, p) ==
    [g EXCEPT !.ip = drop(g.ip, g.pi[p]), !.pi[p] = 0]

\* a pick_up_ingredient that leaves the hands empty
pick_up_ingredient_none(g, p, item) == g

\* Player.pick_up_ingredient; Ingredient.pick_up reads the coordinates of the canvas
\* item after it has set the owner, and a deleted item has none (ValueError)
pick_up_ingredient(g, p, item) ==
    [g EXCEPT !.pi[p] = item,
              !.ip = pick_up(g.ip, item, p),
              !.exc = IF g.ip[item] = 0 /\ item \in g.del THEN "ValueError" ELSE @]

\* FishCrate / LettuceCrate / BreadCrate.remove_ingredient: a new ingredient
Crate_remove_ingredient(g, block) ==
    [g EXCEPT !.it = Append(@, crate_type(block)),
              !.ip = Append(@, 0),
              !.ai = @ \cup {Len(g.it) + 1}]

\* Block.receive_ingredient
Block_receive_ingredient(g, block, item) ==
    [g EXCEPT !.bi[block] = IF @ = 0 THEN item ELSE @]

\* ProcessBlock.receive_ingredient
ProcessBlock_receive_ingredient(g, block, item) ==
    Block_receive_ingredient([g EXCEPT !.tp[block] = (g.bi[block] # 0)], block, item)

\* a Trash that leaves the ingredient as it is
Trash_receive_ingredient_kept(g, item) == g

\* Trash.receive_ingredient
Trash_receive_ingredient(g, item) ==
    [g EXCEPT !.del = @ \cup {item}, !.ai = @ \ {item}]

\* ServingBlock.receive_ingredient, its writes to the canvas and to all_ingredients:
\* the counter comes first, and its KeyError leaves the ingredient as it is
ServingBlock_receive_ingredient(g, item) ==
    IF g.it[item] \in DOMAIN container
    THEN [g EXCEPT !.del = @ \cup {item}, !.ai = @ \ {item}]
    ELSE [g EXCEPT !.exc = "KeyError"]

\* a receive_ingredient that stores the ingredient on any block
block_receive_ingredient_stored(g, block, item) == [g EXCEPT !.bi[block] = item]

\* block.receive_ingredient(ingredient) by the class of the block; Placeholder and
\* Crate do nothing
block_receive_ingredient(g, block, item) ==
    IF block \in ProcessBlocks THEN ProcessBlock_receive_ingredient(g, block, item)
    ELSE IF block = "Block" THEN Block_receive_ingredient(g, block, item)
    ELSE IF block = "Trash" THEN Trash_receive_ingredient(g, item)
    ELSE IF block = "ServingBlock" THEN [g EXCEPT !.serve = item]
    ELSE g

\* a remove_ingredient that keeps the timer of a process block as it is
block_remove_ingredient_kept(g, block) == [g EXCEPT !.bi[block] = 0]

\* Block.remove_ingredient; ProcessBlock.remove_ingredient resets the timer first
block_remove_ingredient(g, block) ==
    IF block \in ProcessBlocks
    THEN [g EXCEPT !.tm[block] = max_time(block), !.bi[block] = 0]
    ELSE [g EXCEPT !.bi[block] = 0]

\* Player.interact once the flag is known to be set; rel tells which of
\* "dist_min > radius" ("far"), "dist_ing < dist_block" ("ingredient") or neither
\* ("block") holds
interact(g, p, block, ingredient, rel) ==
    LET item == g.pi[p]
        has_ingredient == item # 0
    IN  IF rel = "far"
        THEN IF has_ingredient THEN drop_ingredient(g, p) ELSE g
        ELSE IF rel = "ingredient"
        THEN IF ~ has_ingredient THEN pick_up_ingredient(g, p, ingredient) ELSE g
        ELSE IF block \in Crates /\ ~ has_ingredient
        THEN pick_up_ingredient(Crate_remove_ingredient(g, block), p, Len(g.it) + 1)
        ELSE IF has_ingredient /\ block \in ProcessBlocks
        THEN IF \/ block \in ChoppingBlocks /\ can_chop(g.it[item])
                \/ block \in CookingBlocks /\ can_cook(g.it[item])
             THEN block_receive_ingredient(drop_ingredient(g, p), block, item)
             ELSE g
        ELSE IF has_ingredient /\ block \notin Crates
        THEN block_receive_ingredient(drop_ingredient(g, p), block, item)
        ELSE IF ~ has_ingredient /\ g.bi[block] # 0
        THEN pick_up_ingredient(block_remove_ingredient(g, block), p, g.bi[block])
        ELSE g

\* the body of a chop() or cook() that gives an ingredient of type result: the base
\* method returns self; an override reads the coordinates of the canvas item
\* (ValueError once the item is deleted), deletes it, creates the new ingredient and
\* swaps the two in all_ingredients
transform(g, item, result) ==
    IF result = g.it[item] THEN g
    ELSE IF item \in g.del THEN [g EXCEPT !.exc = "ValueError"]
    ELSE [g EXCEPT !.del = @ \cup {item},
                   !.it = Append(@, result),
                   !.ip = Append(@, 0),
                   !.ai = (@ \ {item}) \cup {Len(g.it) + 1}]

\* block._process(block._ingredient): chop() or cook() of the held ingredient; an
\* overriding method reads the coordinates of the canvas item (ValueError once the
\* item is deleted), deletes it and adds a new ingredient to all_ingredients
process(g, block) ==
    LET item == g.bi[block]
        type == g.it[item]
    IN  transform(g, item, IF block \in ChoppingBlocks THEN chop(type) ELSE cook(type))

\* ProcessBlock.update_timer(dt) with dt one unit: the new timer
update_timer(t) == t - 1

\* the body of "for block in process_blocks" for one block: two calls of update_timer,
\* the process when the second returns 0
update_block(g, block) ==
    IF g.bi[block] = 0 THEN g
    ELSE LET t  == update_timer(update_timer(g.tm[block]))
             g1 == [g EXCEPT !.tm[block] = t]
         IN  IF (IF t < 0 THEN 0 ELSE t) = 0
             THEN LET g2 == process(g1, block)
                  IN  IF g2.exc # "none" THEN g2 ELSE [g2 EXCEPT !.tp[block] = FALSE]
             ELSE g1

\* the ingredients the loop over all_ingredients can offer among the objects g: not
\* carried, on no block
ingredients_to_check(g) ==
    { i \in g.ai :
        /\ g.ip[i] = 0
        /\ \A b \in GameBlocks : g.bi[b] # i }

\* ingredients_to_check as the player whose turn it is finds it
candidates == ingredients_to_check(Objects)

\* the state after a turn or the process step that led to g
Apply(g) ==
    /\ player_ingredient' = g.pi
    /\ ingredient_player' = g.ip
    /\ ingredient_type' = g.it
    /\ block_ingredient' = g.bi
    /\ timer' = g.tm
    /\ to_process' = g.tp
    /\ IF g.serve # 0
       THEN \* ServingBlock.receive_ingredient: the counter first, then the deletion
            /\ receive_ingredient(g.it[g.serve])
            /\ LET served == ServingBlock_receive_ingredient(g, g.serve)
               IN  /\ deleted' = served.del
                   /\ all_ingredients' = served.ai
       ELSE /\ raised' = g.exc
            /\ deleted' = g.del
            /\ all_ingredients' = g.ai
            /\ UNCHANGED <<container, current_order, score, delivered, fulfilled>>

try_interact ==
    /\ tpc = "wait"
    /\ \E p \in bindings :
          player_interact' = [player_interact EXCEPT ![p] = TRUE]
    /\ UNCHANGED <<callVars, mapVars, serveVars, moveVars, tpc, turn, ms, label, player_ingredient,
                   ingredient_type, ingredient_player, all_ingredients, deleted,
                   block_ingredient, timer, to_process>>

stop_interact ==
    /\ tpc = "wait"
    /\ \E p \in bindings :
          player_interact' = [player_interact EXCEPT ![p] = FALSE]
    /\ UNCHANGED <<callVars, mapVars, serveVars, moveVars, tpc, turn, ms, label, player_ingredient,
                   ingredient_type, ingredient_player, all_ingredients, deleted,
                   block_ingredient, timer, to_process>>

\* update_game_frame with no time remaining: the players stop, the keys are unbound,
\* all_ingredients is cleared, the scoring screen replaces the game, and the function
\* returns before it schedules the next frame
RoundOver ==
    /\ tpc = "wait"
    /\ time_to_ms(label) = 0
    /\ players' = [i \in 1 .. Len(players) |-> stopped(players[i])]
    /\ bindings' = {}
    /\ all_ingredients' = {}
    /\ screen' = <<"Game Over", score>>
    /\ tpc' = "over"
    /\ UNCHANGED <<callVars, mapVars, serveVars, all_blocks, held_coords, turn, ms, label,
                   player_ingredient, player_interact, ingredient_type, ingredient_player,
                   deleted, block_ingredient, timer, to_process>>

\* update_game_frame, step 1: the timer label loses _REFRESH_IN_MS
FrameStart ==
    /\ tpc = "wait"
    /\ time_to_ms(label) # 0
    /\ label' = ms_to_time(max(time_to_ms(label) - REFRESH_IN_MS, 0))
    /\ ms' = time_to_ms(label')
    /\ tpc' = "players"
    /\ turn' = 1
    /\ UNCHANGED <<callVars, mapVars, serveVars, moveVars, player_ingredient, player_interact,
                   ingredient_type, ingredient_player, all_ingredients, deleted,
                   block_ingredient, timer, to_process>>

\* where the ingredient of player p is drawn after its pass of the loop: Player.move
\* moves it with the player, Ingredient.pick_up moves it in front of the player, and a
\* player that has put its ingredient down carries none
carry(p) ==
    IF p \notin DOMAIN players THEN held_coords
    ELSE [held_coords EXCEPT
             ![p] = IF player_ingredient'[p] = 0 \/ player_ingredient'[p] \in deleted'
                    THEN << >>
                    ELSE IF player_ingredient'[p] # player_ingredient[p]
                    THEN front_coords(players'[p])
                    ELSE <<@[1] + players'[p].x - players[p].x,
                           @[2] + players'[p].y - players[p].y>>]

\* update_game_frame, step 2 for one player: player.move(nearest_block, others), then
\* player.interact(nearest_block, nearest_ingredient); an exception ends the frame loop
PlayerTurn(block, ingredient, rel) ==
    /\ tpc = "players"
    /\ LET moved == move_player(players, turn)
       IN  /\ players' = moved.players
           /\ IF moved.raised # "none"
              THEN /\ raised' = moved.raised
                   /\ UNCHANGED <<container, current_order, score, delivered, fulfilled,
                                  player_ingredient, player_interact, ingredient_type,
                                  ingredient_player, all_ingredients, deleted,
                                  block_ingredient, timer, to_process>>
              ELSE IF ~ player_interact[turn]
              THEN UNCHANGED <<serveVars, player_ingredient, player_interact,
                               ingredient_type, ingredient_player, all_ingredients,
                               deleted, block_ingredient, timer, to_process>>
              ELSE     /\ LET g == interact(Objects, turn, block, ingredient, rel)
                          IN  /\ Len(g.it) <= MaxIngredients
                              /\ Apply(g)
                       /\ player_interact' = IF raised' = "none"
                                             THEN [player_interact EXCEPT ![turn] = FALSE]
                                             ELSE player_interact
    /\ IF raised' # "none"
       THEN tpc' = "raised" /\ turn' = turn
       ELSE IF turn < Len(player_ingredient)
       THEN tpc' = "players" /\ turn' = turn + 1
       ELSE tpc' = "process" /\ turn' = 0
    /\ held_coords' = carry(turn)
    /\ UNCHANGED <<callVars, mapVars, all_blocks, bindings, screen, ms, label>>

\* the turn of one player, for every station and ingredient the player can be next to;
\* interact reads neither unless the interact flag is set
PlayerStep ==
    IF tpc = "players" /\ player_interact[turn]
    THEN \E block \in GameBlocks, ingredient \in candidates \cup {0},
            rel \in {"far", "ingredient", "block"} :
             /\ rel = "ingredient" => ingredient # 0
             /\ PlayerTurn(block, ingredient, rel)
    ELSE PlayerTurn("Block", 0, "far")

\* update_game_frame, step 3: the loop over process_blocks ends after its first block
\* ("break"); then the next frame is scheduled, unless an exception was raised
ProcessStep ==
    /\ tpc = "process"
    /\ LET g == update_block(Objects, process_blocks[1])
       IN  /\ Len(g.it) <= MaxIngredients
           /\ Apply(g)
    /\ tpc' = IF raised' # "none" THEN "raised" ELSE "wait"
    /\ UNCHANGED <<callVars, mapVars, moveVars, turn, ms, label, player_interact>>

\* create_game_screen for n players with ticks frames to play: nothing carried, nothing
\* on a station, no timer running, the first frame scheduled
GameStart(n, ticks) ==
    /\ player_ingredient = [p \in 1 .. n |-> 0]
    /\ player_interact = [p \in 1 .. n |-> FALSE]
    /\ tpc = "wait"
    /\ turn = 0
    /\ ms = ticks * REFRESH_IN_MS
    /\ label = ms_to_time(ms)
    /\ ingredient_type = << >>
    /\ ingredient_player = << >>
    /\ all_ingredients = {}
    /\ deleted = {}
    /\ block_ingredient = [b \in GameBlocks |-> 0]
    /\ timer = [b \in ProcessBlocks |-> max_time(b)]
    /\ to_process = [b \in ProcessBlocks |-> FALSE]

GameInit == \E n \in 1 .. GamePlayers : GameStart(n, GameTicks)

\* the window of a game whose canvas is left out: the keys of every player are bound
GameWindow ==
    /\ players = << >>
    /\ all_blocks = {}
    /\ bindings = DOMAIN player_ingredient
    /\ screen = <<"game">>
    /\ held_coords = << >>

GameIdle ==
    /\ tpc = "idle"
    /\ turn = 0
    /\ ms = 0
    /\ label = << >>
    /\ player_ingredient = << >>
    /\ player_interact = << >>
    /\ ingredient_type = << >>
    /\ ingredient_player = << >>
    /\ all_ingredients = {}
    /\ deleted = {}
    /\ block_ingredient = << >>
    /\ timer = << >>
    /\ to_process = << >>

\* no helper function is called on its own
CallIdle ==
    /\ objs = << >>
    /\ ret = [op |-> "none"]

(***************************************************************************)
(* The specifications                                                      *)
(***************************************************************************)
NextGrow == GrowHit \/ GrowMiss \/ GrowEnd \/ Retry \/ Exhausted \/ Place

InitGrow == MapInit(GrowMaxLength, GrowMaxWidth) /\ ServeIdle /\ MoveIdle /\ GameIdle /\ CallIdle

SpecGrow == InitGrow /\ [][NextGrow]_vars

\* the growth loop as Python runs it: a loop that can take a step takes one
SpecGrowFair == SpecGrow /\ WF_vars(NextGrow)

NextMap == NextGrow \/ DrawRole \/ AssignRoles \/ ExtraChop \/ ExtraCook

InitMap == MapInit(MapMaxLength, MapMaxWidth) /\ ServeIdle /\ MoveIdle /\ GameIdle /\ CallIdle

SpecMap == InitMap /\ [][NextMap]_vars

InitServe == MapIdle /\ ServeInit /\ MoveIdle /\ GameIdle /\ CallIdle

NextServe == Deliver

SpecServe == InitServe /\ [][NextServe]_vars

InitMove == MoveInit /\ ServeIdle /\ GameIdle /\ CallIdle

NextMove ==
    \/ move_up \/ move_down \/ move_left \/ move_right
    \/ stop_moving_horizontally \/ stop_moving_vertically
    \/ MoveFrame

SpecMove == InitMove /\ [][NextMove]_vars

\* the recipes SpecGame draws the first orders from
GameOrders == { o \in list_of_orders : o[1] \in {"Sashimi", "Salad"} }

InitGame == MapIdle /\ ServeInitFrom(GameOrders) /\ GameInit /\ GameWindow /\ CallIdle

NextGame == try_interact \/ stop_interact \/ RoundOver \/ FrameStart \/ PlayerStep \/ ProcessStep

SpecGame == InitGame /\ [][NextGame]_vars

\* the classes chop() and cook() lead from type to want
RECURSIVE Leads(_, _)
Leads(type, want) ==
    \/ type = want
    \/ chop(type) # type /\ Leads(chop(type), want)
    \/ cook(type) # type /\ Leads(cook(type), want)

\* the station an ingredient of this type goes to next on its way to want
next_station(type, want) ==
    IF type = want THEN "ServingBlock"
    ELSE IF chop(type) # type /\ Leads(chop(type), want) THEN "ChoppingBlock"
    ELSE "CookingBlock"

\* the first slot of the front order that the Serving station has no stock for
PlayWant ==
    LET order == current_order[1]
        open == { i \in 2 .. 4 : order[i] # "-" /\ container[order[i]] = 0 }
    IN  IF open = {} THEN order[2]
        ELSE order[CHOOSE i \in open : \A j \in open : i <= j]

\* what the player of SpecPlay stands next to when it presses its interact key, as
\* <<block, ingredient, rel>>, and << >> while it waits for a station: it carries what
\* it holds to the next station of the recipe, picks up a loose ingredient that leads to
\* the wanted one, picks up from a station what that station is done with, and else
\* goes to the crate of the recipe
PlayChoice ==
    LET want == PlayWant
        held == player_ingredient[1]
        loose == { i \in candidates : Leads(ingredient_type[i], want) }
        busy == { b \in ProcessBlocks : block_ingredient[b] # 0 }
    IN  IF held # 0 THEN <<next_station(ingredient_type[held], want), 0, "block">>
        ELSE IF loose # {} THEN <<"Block", CHOOSE i \in loose : TRUE, "ingredient">>
        ELSE IF busy # {}
        THEN LET b == CHOOSE c \in busy : TRUE
             IN  IF next_station(ingredient_type[block_ingredient[b]], want) # b
                 THEN <<b, 0, "block">>
                 ELSE << >>
        ELSE <<CHOOSE c \in Crates : Leads(crate_type(c), want), 0, "block">>

\* the player has something to do and has not pressed its interact key yet
PlayDue == tpc = "wait" /\ Len(PlayChoice) # 0 /\ ~ player_interact[1]

\* the interact key, pressed when the player has something to do
PlayKey == PlayDue /\ try_interact

\* the next frame, run once the key is down or the player waits
PlayFrame == ~ PlayDue /\ FrameStart

\* the turn of the player, next to what PlayChoice names
PlayTurn ==
    LET c == PlayChoice
    IN  IF Len(c) = 0 THEN PlayerTurn("Block", 0, "far")
        ELSE PlayerTurn(c[1], c[2], c[3])

InitPlay == MapIdle /\ ServeInit /\ GameStart(1, PlayTicks) /\ GameWindow /\ CallIdle

NextPlay == PlayKey \/ PlayFrame \/ PlayTurn \/ ProcessStep \/ RoundOver

SpecPlay == InitPlay /\ [][NextPlay]_vars

(***************************************************************************)
(* The last frames of a round, with the players on the canvas              *)
(***************************************************************************)
\* a map of MoveInit for at most RoundPlayers players, RoundTicks frames before the end
InitRound ==
    /\ CallIdle
    /\ MoveInit
    /\ Len(players) <= RoundPlayers
    /\ ServeInitFrom(GameOrders)
    /\ GameStart(Len(players), RoundTicks)

NextRound ==
    \/ move_up \/ move_down \/ move_left \/ move_right
    \/ stop_moving_horizontally \/ stop_moving_vertically
    \/ try_interact \/ stop_interact
    \/ RoundOver \/ FrameStart \/ PlayerStep \/ ProcessStep

SpecRound == InitRound /\ [][NextRound]_vars

(***************************************************************************)
(* chop() and cook() called on ingredients of every class                  *)
(***************************************************************************)
\* some ingredients of any classes, all live, none carried
TransformInit ==
    /\ tpc = "call"
    /\ turn = 0
    /\ ms = 0
    /\ label = << >>
    /\ player_ingredient = << >>
    /\ player_interact = << >>
    /\ \E n \in 1 .. TransformItems :
          /\ ingredient_type \in [1 .. n -> IngredientTypes]
          /\ ingredient_player = [i \in 1 .. n |-> 0]
          /\ all_ingredients = 1 .. n
    /\ deleted = {}
    /\ block_ingredient = << >>
    /\ timer = << >>
    /\ to_process = << >>

\* the state after a call of chop() or cook() on item that gives type result
Transformed(item, result) ==
    LET g == transform(Objects, item, result)
    IN  /\ Len(g.it) <= MaxIngredients
        /\ ingredient_type' = g.it
        /\ ingredient_player' = g.ip
        /\ all_ingredients' = g.ai
        /\ deleted' = g.del
        /\ raised' = g.exc
        /\ turn' = item
        /\ UNCHANGED <<callVars, mapVars, container, current_order, score, delivered, fulfilled,
                       moveVars, ms, label, player_ingredient, player_interact,
                       block_ingredient, timer, to_process>>

\* ingredient.chop()
Chop ==
    /\ tpc \in {"call", "chopped", "cooked"}
    /\ raised = "none"
    /\ \E item \in 1 .. Len(ingredient_type) :
          Transformed(item, chop(ingredient_type[item]))
    /\ tpc' = "chopped"

\* ingredient.cook()
Cook ==
    /\ tpc \in {"call", "chopped", "cooked"}
    /\ raised = "none"
    /\ \E item \in 1 .. Len(ingredient_type) :
          Transformed(item, cook(ingredient_type[item]))
    /\ tpc' = "cooked"

InitTransform == MapIdle /\ ServeIdle /\ MoveIdle /\ TransformInit /\ CallIdle

NextTransform == Chop \/ Cook

SpecTransform == InitTransform /\ [][NextTransform]_vars

(***************************************************************************)
(* The timer label read and written by update_game_frame                   *)
(***************************************************************************)
\* the digits the labels of SpecTime are written with
TimeDigits == {"0", "5", "9"}

\* texts MM:SS:DDD with seconds below 60
TimeLabels ==
    { <<m1, m2, ":", s1, s2, ":", d1, d2, d3>> :
        m1 \in TimeDigits, m2 \in TimeDigits, s1 \in TimeDigits \ {"9"}, s2 \in TimeDigits,
        d1 \in TimeDigits, d2 \in TimeDigits, d3 \in TimeDigits }

\* numbers of milliseconds around the places where a field of the label rolls over
TimeValues ==
    { m * 60000 + sec * 1000 + d :
        m \in {0, 1, MaxMinutes - 1, MaxMinutes}, sec \in {0, 59}, d \in {0, 14, 999} }

\* a label with some text and a number of milliseconds
TimeInit ==
    /\ tpc = "time"
    /\ turn = 0
    /\ ms \in TimeValues
    /\ label \in TimeLabels
    /\ player_ingredient = << >>
    /\ player_interact = << >>
    /\ ingredient_type = << >>
    /\ ingredient_player = << >>
    /\ all_ingredients = {}
    /\ deleted = {}
    /\ block_ingredient = << >>
    /\ timer = << >>
    /\ to_process = << >>

\* ms = time_to_ms(timer.cget('text'))
TimeRead ==
    /\ tpc = "time"
    /\ ms' = time_to_ms(label)
    /\ UNCHANGED <<callVars, mapVars, serveVars, moveVars, tpc, turn, label, player_ingredient,
                   player_interact, ingredient_type, ingredient_player, all_ingredients,
                   deleted, block_ingredient, timer, to_process>>

\* timer.config(text=ms_to_time(max(ms - _REFRESH_IN_MS, 0)))
TimeWrite ==
    /\ tpc = "time"
    /\ turn < TimeTicks
    /\ label' = ms_to_time(max(ms - REFRESH_IN_MS, 0))
    /\ turn' = turn + 1
    /\ UNCHANGED <<callVars, mapVars, serveVars, moveVars, tpc, ms, player_ingredient,
                   player_interact, ingredient_type, ingredient_player, all_ingredients,
                   deleted, block_ingredient, timer, to_process>>

InitTime == MapIdle /\ ServeIdle /\ MoveIdle /\ TimeInit /\ CallIdle

NextTime == TimeRead \/ TimeWrite

SpecTime == InitTime /\ [][NextTime]_vars

(***************************************************************************)
(* intersects and object_with_min_distance called on objects of any size   *)
(***************************************************************************)
\* the sides the objects of SpecCall have
BoxSides == {1, 3}

\* the bounding boxes x1, y1, x2, y2 of the objects, with x1 <= x2 and y1 <= y2
Boxes ==
    { <<x, y, x + w, y + h>> : x \in 0 .. BoxMax, y \in 0 .. BoxMax, w \in BoxSides, h \in BoxSides }

\* the objects of a call: obj (or obj1) first, then obj2 or the objects of obj_list
CallInit ==
    /\ \E n \in 1 .. MaxObjs + 1 : objs \in [1 .. n -> Boxes]
    /\ ret = [op |-> "none"]

\* intersects(obj1, obj2)
CallIntersects ==
    /\ ret.op = "none"
    /\ Len(objs) = 2
    /\ ret' = [op |-> "intersects", value |-> intersects(objs[1], objs[2])]
    /\ UNCHANGED <<objs, mapVars, serveVars, moveVars, gameVars>>

\* object_with_min_distance(obj, obj_list); min() of an empty list raises ValueError
CallNearest ==
    /\ ret.op = "none"
    /\ raised = "none"
    /\ LET obj == objs[1]
           obj_list == Tail(objs)
       IN  IF obj_list = << >>
           THEN /\ raised' = "ValueError"
                /\ UNCHANGED ret
           ELSE /\ ret' = [op |-> "object_with_min_distance",
                           index |-> index_dist(obj, obj_list),
                           object |-> object_with_min_distance(obj, obj_list)]
                /\ UNCHANGED raised
    /\ UNCHANGED <<objs, mapVars, container, current_order, score, delivered, fulfilled,
                   moveVars, gameVars>>

InitCall == MapIdle /\ ServeIdle /\ MoveIdle /\ GameIdle /\ CallInit

NextCall == CallIntersects \/ CallNearest

SpecCall == InitCall /\ [][NextCall]_vars

\* len(controls): create_game_screen sets grid_length = 5 * len(controls)
controls_len == grid_length \div 5

\* the keys of the players dict of create_game_screen: the spawn cells <<row, col>>
spawn_cells == { <<players[i].y \div length, players[i].x \div length>> : i \in DOMAIN players }

\* the test of the while loop: the drawn cell holds a station, a placeholder or a player
taken(cell) == cell \in all_blocks \/ cell \in spawn_cells

\* create_game_screen for n players after generate_map has returned: a 5n x 3n grid
\* whose free cells are F, at least 7 blocks for the roles, no player created yet
SpawnInit ==
    \E n \in 1 .. SpawnPlayers :
        /\ gpc = "idle"
        /\ grid_length = 5 * n
        /\ grid_width = 3 * n
        /\ placeholders = {}
        /\ blocks = {}
        /\ attempts = 0
        /\ coord = NoCell
        /\ individual_blocks = << >>
        /\ chopping_blocks = << >>
        /\ cooking_blocks = << >>
        /\ \E F \in FreeRegions(5 * n, 3 * n, MaxFree) :
              /\ Cardinality(AccessibleBlocks(F, 5 * n, 3 * n)) >= MandatoryBlocks
              /\ all_blocks = Cells(5 * n, 3 * n) \ F
        /\ players = << >>
        /\ bindings = {}
        /\ screen = <<"game">>
        /\ held_coords = << >>

\* "coord = random.randint(...)" draws a cell that is taken: the loop draws again
SpawnMiss ==
    /\ screen = <<"game">>
    /\ Len(players) < controls_len
    /\ \E cell \in Cells(grid_length, grid_width) :
          /\ taken(cell)
          /\ coord' = cell
    /\ UNCHANGED <<callVars, gpc, grid_length, grid_width, placeholders, blocks, attempts,
                   individual_blocks, chopping_blocks, cooking_blocks, serveVars,
                   moveVars, gameVars>>

\* the drawn cell is free and holds no player: the next Player is created in it
SpawnHit ==
    /\ screen = <<"game">>
    /\ Len(players) < controls_len
    /\ \E cell \in Cells(grid_length, grid_width) :
          /\ ~ taken(cell)
          /\ coord' = cell
          /\ players' = Append(players, Player(cell[2] * length + player_margin,
                                               cell[1] * length + player_margin))
    /\ held_coords' = Append(held_coords, << >>)
    /\ UNCHANGED <<callVars, gpc, grid_length, grid_width, placeholders, blocks, attempts,
                   individual_blocks, chopping_blocks, cooking_blocks, serveVars,
                   all_blocks, bindings, screen, gameVars>>

\* bind_player_controls, once the for loop has created every player
SpawnBind ==
    /\ screen = <<"game">>
    /\ players # << >>
    /\ Len(players) = controls_len
    /\ bindings = {}
    /\ bindings' = 1 .. Len(players)
    /\ UNCHANGED <<callVars, mapVars, serveVars, players, all_blocks, screen, held_coords,
                   gameVars>>

InitSpawn == SpawnInit /\ ServeIdle /\ GameIdle /\ CallIdle

NextSpawn == SpawnMiss \/ SpawnHit \/ SpawnBind

SpecSpawn == InitSpawn /\ [][NextSpawn]_vars

(***************************************************************************)
(* Connectivity, stated without the sweep of is_map_accessible             *)
(***************************************************************************)
\* two cells share an edge
Adjacent(a, b) ==
    \/ a[1] = b[1] /\ (a[2] - b[2] = 1 \/ b[2] - a[2] = 1)
    \/ a[2] = b[2] /\ (a[1] - b[1] = 1 \/ b[1] - a[1] = 1)

\* the cells of S that a path inside S joins to a cell of seen
RECURSIVE Reachable(_, _)
Reachable(seen, S) ==
    LET more == { n \in S \ seen : \E c \in seen : Adjacent(n, c) }
    IN  IF more = {} THEN seen ELSE Reachable(seen \cup more, S)

Connected(S) == \A a \in S : Reachable({a}, S) = S

\* every cell that holds a station: the plain blocks and the cells drawn for a role
Stations ==
    blocks \cup Range(individual_blocks) \cup Range(chopping_blocks) \cup Range(cooking_blocks)

\* the free floor cells: neither placeholders nor stations
Free == FreeCells(grid_length, grid_width, Stations, placeholders)

\* C1: in every state of generate_map (so after every placement and in every map
\* returned) the free floor cells are connected under 4-neighbour adjacency, and
\* is_map_accessible answers true exactly for the empty and the connected sets among
\* the set it is asked about (the free cells without the candidate cell).
C1_FreeCellsConnected ==
    /\ Connected(Free)
    /\ gpc = "retry" =>
           (is_map_accessible(Free \ {coord}) <=> Connected(Free \ {coord}))

\* growth has ended after at least one placement and several free cells are left
C1_Witness ==
    /\ gpc = "roles"
    /\ blocks \cup placeholders # InitBlocks(grid_length, grid_width)
                                      \cup InitPlaceholders(grid_length, grid_width)
    /\ Cardinality(Free) >= 3

\* C2: a returned map has exactly one fish crate, lettuce crate, bread crate, serving
\* block and trash block (the five keys of the last dictionary returned), at least one
\* chopping and one cooking block, all on pairwise distinct cells, none of them a
\* plain block or a placeholder.
C2_MandatoryRoles ==
    gpc = "returned" =>
        /\ Len(individual_blocks) = 5
        /\ Cardinality(Range(individual_blocks)) = 5
        /\ Len(chopping_blocks) >= 1
        /\ Len(cooking_blocks) >= 1
        /\ Cardinality(Range(individual_blocks) \cup Range(chopping_blocks)
                            \cup Range(cooking_blocks))
               = 5 + Len(chopping_blocks) + Len(cooking_blocks)
        /\ (Range(individual_blocks) \cup Range(chopping_blocks) \cup Range(cooking_blocks))
               \cap (blocks \cup placeholders) = {}

\* a map is returned with a second chopping block and free floor left
C2_Witness ==
    /\ gpc = "returned"
    /\ Len(chopping_blocks) = 2
    /\ Free # {}

\* two boxes share an area
Overlap(a, b) == a[1] < b[3] /\ b[1] < a[3] /\ a[2] < b[4] /\ b[2] < a[4]

\* C3: no player ends a tick with its bounding box overlapping a station or another
\* player, whatever the number of players and the movement keys
C3_NoOverlap ==
    \A i \in 1 .. Len(players) :
        /\ \A cell \in all_blocks :
              ~ Overlap(get_coords(players[i]), block_coords(cell))
        /\ \A j \in 1 .. Len(players) :
              i # j => ~ Overlap(get_coords(players[i]), get_coords(players[j]))

\* the ingredient types an order asks for
Required(order) == { order[i] : i \in 2 .. 4 } \ {"-"}

\* C4: a delivery first increments the counter of the delivered type; then, if every
\* non-sentinel slot of the front order has stock >= 1, each such slot loses 1, the
\* score gains exactly 1 and the queue advances by one order (2nd to front, 3rd to
\* 2nd, a catalogue order at the back); otherwise nothing else changes.
C4_DeliveryThenFrontOrder ==
    [][ /\ delivered' \in DOMAIN container
        /\ LET front   == current_order[1]
               stocked == [container EXCEPT ![delivered'] = @ + 1]
           IN  IF \A k \in Required(front) : stocked[k] >= 1
               THEN /\ container' = [k \in DOMAIN container |->
                                        IF k \in Required(front) THEN stocked[k] - 1
                                                                 ELSE stocked[k]]
                    /\ score' = score + 1
                    /\ Len(current_order') = 3
                    /\ current_order'[1] = current_order[2]
                    /\ current_order'[2] = current_order[3]
                    /\ current_order'[3] \in list_of_orders
               ELSE /\ container' = stocked
                    /\ score' = score
                    /\ current_order' = current_order ]_vars

SashimiOrder == <<"Sashimi", "Sashimi", "-", "-">>

OnlySashimi(n) == [k \in ContainerKeys |-> IF k = "Sashimi" THEN n ELSE 0]

\* the case of C5: the stock is {Sashimi: 1}, the front order asks for one Sashimi,
\* and a Sashimi is delivered
SashimiScenario ==
    /\ container = OnlySashimi(1)
    /\ current_order[1] = SashimiOrder
    /\ delivered' = "Sashimi"

\* C5 as stated: the delivery scores, advances the queue and leaves stock[Sashimi] = 0
C5_SashimiStockResets ==
    [][ SashimiScenario =>
            /\ score' = score + 1
            /\ container'["Sashimi"] = 0
            /\ current_order'[1] = current_order[2]
            /\ current_order'[2] = current_order[3]
            /\ current_order'[3] \in list_of_orders ]_vars

\* C5, amended: the delivery scores and advances the queue, and one of the two Sashimi
\* is used, so stock[Sashimi] is 1 afterwards (and every other counter still 0)
C5_SashimiStockKeepsOne ==
    [][ SashimiScenario =>
            /\ score' = score + 1
            /\ container' = OnlySashimi(1)
            /\ current_order'[1] = current_order[2]
            /\ current_order'[2] = current_order[3]
            /\ current_order'[3] \in list_of_orders ]_vars

\* the scenario has happened: a Sashimi delivery completed a Sashimi order whose
\* completion was the second one, with one Sashimi in stock before and after
C5_Witness ==
    /\ delivered = "Sashimi"
    /\ fulfilled = SashimiOrder
    /\ container = OnlySashimi(1)
    /\ score = 2

\* C6: the Serving station holds exactly three orders, each one a catalogue recipe
C6_ThreeLiveOrders ==
    /\ Len(current_order) = 3
    /\ \A i \in 1 .. Len(current_order) : current_order[i] \in list_of_orders

\* two deliveries have completed an order each
C6_Witness ==
    /\ score = 2
    /\ fulfilled # << >>

\* C7: no counter of the Serving station is ever below 0
C7_StockNonNegative == \A k \in DOMAIN container : container[k] >= 0

\* a two-ingredient order has been completed and has used up the stock
C7_Witness ==
    /\ fulfilled = <<"CroutonSalad", "Salad", "Crouton", "-">>
    /\ \A k \in DOMAIN container : container[k] = 0

\* C8: a delivery of any of the ten ingredient types completes normally and counts the
\* ingredient in the counter of its type (an order completed by the same delivery
\* takes one back)
C8_DeliveryNeverFails ==
    [][ /\ raised' = "none"
        /\ delivered' \in DOMAIN container
        /\ container'[delivered']
               = container[delivered'] + 1
                   - (IF fulfilled' # << >> /\ delivered' \in Required(fulfilled')
                      THEN 1 ELSE 0) ]_vars

\* C9: the two handles agree (an ingredient's owner is P exactly when P carries that
\* ingredient), so a player carries at most one ingredient and no ingredient is
\* carried by two players
C9_CarrierConsistency ==
    /\ \A p \in 1 .. Len(player_ingredient) :
          player_ingredient[p] # 0 =>
              /\ player_ingredient[p] \in 1 .. Len(ingredient_player)
              /\ ingredient_player[player_ingredient[p]] = p
    /\ \A i \in 1 .. Len(ingredient_player) :
          ingredient_player[i] # 0 => player_ingredient[ingredient_player[i]] = i
    /\ \A p \in 1 .. Len(player_ingredient) : \A q \in 1 .. Len(player_ingredient) :
          (p # q /\ player_ingredient[p] # 0) => player_ingredient[p] # player_ingredient[q]

\* two players carry an ingredient each after crate removals, and a third ingredient
\* has been placed on the plain block
C9_Witness ==
    /\ Len(player_ingredient) = 2
    /\ player_ingredient[1] # 0
    /\ player_ingredient[2] # 0
    /\ block_ingredient["Block"] # 0

\* C10: in the step in which the timer of a processing station that holds an
\* ingredient crosses zero, the station comes to hold a new, live ingredient of the type
\* its chop or cook gives, and no longer the ingredient it held
C10_ExpiryReplacesItem ==
    [][ \A b \in ProcessBlocks :
            (tpc = "process" /\ block_ingredient[b] # 0 /\ timer[b] > 0 /\ timer'[b] <= 0)
                => LET old == block_ingredient[b]
                       new == block_ingredient'[b]
                   IN  /\ new # 0
                       /\ new # old
                       /\ new \notin deleted'
                       /\ ingredient_type'[new] =
                              (IF b \in ChoppingBlocks THEN chop(ingredient_type[old])
                                                       ELSE cook(ingredient_type[old])) ]_vars

(***************************************************************************)
(* The kitchen in play                                                     *)
(***************************************************************************)
\* the transformation graph the specification gives, by source type
ChopGraph ==
    [Fish |-> "Sashimi", FriedFish |-> "FishFillet", Lettuce |-> "Salad",
     Bread |-> "BreadPiece"]

CookGraph == [Fish |-> "FriedFish", Bread |-> "Toast", BreadPiece |-> "Crouton"]

\* the type the specification binds to each crate
BoundType == [FishCrate |-> "Fish", LettuceCrate |-> "Lettuce", BreadCrate |-> "Bread"]

\* C11: a Fish left on the cooking station gets cooked: every frame takes its tick off
\* the timer of the station, or, with the timer exhausted, leaves a FriedFish on it
C11_FishCooks ==
    [][ ( /\ tpc = "process"
          /\ tpc' = "wait"
          /\ block_ingredient["CookingBlock"] # 0
          /\ ingredient_type[block_ingredient["CookingBlock"]] = "Fish" )
        => \/ timer'["CookingBlock"] < timer["CookingBlock"]
           \/ /\ block_ingredient'["CookingBlock"] # 0
              /\ ingredient_type'[block_ingredient'["CookingBlock"]] = "FriedFish" ]_vars

\* it is the turn of a player whose interact flag is set
InteractTurn == tpc = "players" /\ player_interact[turn]

\* C12: whenever a player with empty hands and the interact flag set has a crate as
\* the station of its turn (within the radius, no ingredient nearer), the turn gives
\* the player exactly one new ingredient of the crate's type and adds it to the live
\* set, however many ingredients the crate has handed out before
C12_CrateGivesItem ==
    (InteractTurn /\ player_ingredient[turn] = 0) =>
        \A block \in Crates : \A ingredient \in candidates \cup {0} :
            LET g   == interact(Objects, turn, block, ingredient, "block")
                new == Len(ingredient_type) + 1
            IN  /\ g.exc = "none"
                /\ g.pi = [player_ingredient EXCEPT ![turn] = new]
                /\ g.it = Append(ingredient_type, BoundType[block])
                /\ g.ip = Append(ingredient_player, turn)
                /\ g.ai = all_ingredients \cup {new}
                /\ new \notin all_ingredients
                /\ g.bi = block_ingredient

\* a player holds the third ingredient, a Bread the bread crate has just handed out
C12_Witness ==
    /\ tpc = "players"
    /\ turn = 2
    /\ Len(ingredient_type) = 3
    /\ player_ingredient[1] = 3
    /\ ingredient_type[3] = "Bread"
    /\ ingredient_player[3] = 1
    /\ 3 \in all_ingredients

\* the stations that never keep what they receive
Keepless == Crates \cup {"Trash", "ServingBlock", "Placeholder"}

\* C18: a crate, the trash, the serving block and a placeholder never hold an
\* ingredient, and their receive_ingredient does not store the one it is handed; no
\* ingredient lies on two stations
C18_StationsHoldAtMostOne ==
    /\ \A b \in Keepless : block_ingredient[b] = 0
    /\ \A b \in Keepless : \A item \in 1 .. Len(ingredient_type) :
          block_receive_ingredient(Objects, b, item).bi = block_ingredient
    /\ \A b \in GameBlocks : \A c \in GameBlocks :
          (b # c /\ block_ingredient[b] # 0) => block_ingredient[b] # block_ingredient[c]

\* a Lettuce was put into the trash, an ingredient was handed to the serving block,
\* and the plain block holds a third one
C18_Witness ==
    /\ \E i \in deleted : ingredient_type[i] = "Lettuce"
    /\ \A i \in 1 .. Len(ingredient_type) : ingredient_type[i] # "Salad"
    /\ delivered # "none"
    /\ block_ingredient["Block"] # 0

\* the process of the station can transform the type, by the graph
Capable(block, type) ==
    \/ block \in ChoppingBlocks /\ type \in DOMAIN ChopGraph
    \/ block \in CookingBlocks /\ type \in DOMAIN CookGraph

\* the handles a turn can change: who carries what, the ingredients, the stations,
\* what went to the serving block
Handles(g) == <<g.pi, g.ip, g.it, g.ai, g.del, g.bi, g.serve>>

\* the outcome the seven rules ask for, rule by rule, for player p of o
Resolution(o, p, block, ingredient, rel) ==
    LET item     == o.pi[p]
        carrying == item # 0
        new      == Len(o.it) + 1
        released == [o EXCEPT !.pi[p] = 0, !.ip[item] = 0]
        onto     == IF block = "Trash"
                    THEN [released EXCEPT !.del = @ \cup {item}, !.ai = @ \ {item}]
                    ELSE IF block = "ServingBlock"
                    THEN [released EXCEPT !.serve = item]
                    ELSE IF block # "Placeholder" /\ o.bi[block] = 0
                    THEN [released EXCEPT !.bi[block] = item]
                    ELSE released
    IN  CASE rel = "far" ->
                IF carrying THEN released ELSE o
          [] rel = "ingredient" ->
                IF carrying THEN o
                ELSE [o EXCEPT !.pi[p] = ingredient, !.ip[ingredient] = p]
          [] rel = "block" /\ block \in Crates /\ ~ carrying ->
                [o EXCEPT !.pi[p] = new, !.it = Append(@, BoundType[block]),
                          !.ip = Append(@, p), !.ai = @ \cup {new}]
          [] rel = "block" /\ carrying /\ block \in ProcessBlocks ->
                IF Capable(block, o.it[item]) THEN onto ELSE o
          [] rel = "block" /\ carrying /\ block \notin ProcessBlocks /\ block \notin Crates ->
                onto
          [] rel = "block" /\ ~ carrying /\ block \notin Crates /\ o.bi[block] # 0 ->
                [o EXCEPT !.pi[p] = o.bi[block], !.ip[o.bi[block]] = p, !.bi[block] = 0]
          [] OTHER -> o

\* C19: with the interact flag set, Player.interact resolves a turn by the first rule
\* that matches, in the order (1) nothing within the radius, (2) an ingredient nearer
\* than the station, (3) crate and empty hands, (4) carrying at a processing station,
\* (5) carrying at another station that is no crate, (6) empty hands at an occupied
\* station, (7) nothing; a player carrying an ingredient at a crate keeps it
C19_InteractPriority ==
    InteractTurn =>
        \A block \in GameBlocks : \A ingredient \in candidates \cup {0} :
            \A rel \in {"far", "ingredient", "block"} :
                (rel = "ingredient" => ingredient # 0) =>
                    Handles(interact(Objects, turn, block, ingredient, rel))
                        = Handles(Resolution(Objects, turn, block, ingredient, rel))

\* the second player's turn, carrying, after the first player has put an ingredient
\* on the chopping block, with an ingredient lying on the floor
C19_Witness ==
    /\ InteractTurn
    /\ turn = 2
    /\ player_ingredient[2] # 0
    /\ block_ingredient["ChoppingBlock"] # 0
    /\ candidates # {}

\* C20: a player carrying an ingredient at a chopping (cooking) station within the
\* radius places it only if it can be chopped (cooked); otherwise the turn changes
\* nothing: the player keeps the ingredient, station and timer stay as they were.
\* So a processing station never holds an ingredient its process cannot transform.
C20_CapabilityGate ==
    /\ InteractTurn /\ player_ingredient[turn] # 0 =>
          \A block \in ProcessBlocks : \A ingredient \in candidates \cup {0} :
              LET g    == interact(Objects, turn, block, ingredient, "block")
                  item == player_ingredient[turn]
              IN  IF Capable(block, ingredient_type[item])
                  THEN /\ g.pi[turn] = 0
                       /\ block_ingredient[block] = 0 => g.bi[block] = item
                  ELSE g = Objects
    /\ \A block \in ProcessBlocks :
          block_ingredient[block] # 0 =>
              Capable(block, ingredient_type[block_ingredient[block]])

\* a Lettuce is on the chopping block while a player carries a Lettuce at its turn,
\* which the cooking block would refuse
C20_Witness ==
    /\ InteractTurn
    /\ player_ingredient[turn] # 0
    /\ ingredient_type[player_ingredient[turn]] = "Lettuce"
    /\ block_ingredient["ChoppingBlock"] # 0
    /\ ingredient_type[block_ingredient["ChoppingBlock"]] = "Lettuce"

(***************************************************************************)
(* generate_map on small grids and after an aborted growth                 *)
(***************************************************************************)
\* the seven roles of a returned map are all assigned
RolesAssigned ==
    /\ Len(individual_blocks) = 5
    /\ Len(chopping_blocks) >= 1
    /\ Len(cooking_blocks) >= 1

C13_TransformationGraph ==
    [][ /\ \A type \in IngredientTypes :
              /\ chop(type) = (IF type \in DOMAIN ChopGraph THEN ChopGraph[type] ELSE type)
              /\ cook(type) = (IF type \in DOMAIN CookGraph THEN CookGraph[type] ELSE type)
              /\ can_chop(type) <=> type \in DOMAIN ChopGraph
              /\ can_cook(type) <=> type \in DOMAIN CookGraph
        /\ (tpc' \in {"chopped", "cooked"} /\ raised' = "none") =>
              LET item  == turn'
                  type  == ingredient_type[item]
                  graph == IF tpc' = "chopped" THEN ChopGraph ELSE CookGraph
                  new   == Len(ingredient_type) + 1
              IN  IF type \in DOMAIN graph
                  THEN /\ ingredient_type' = Append(ingredient_type, graph[type])
                       /\ deleted' = deleted \cup {item}
                       /\ all_ingredients' = (all_ingredients \ {item}) \cup {new}
                  ELSE UNCHANGED <<ingredient_type, deleted, all_ingredients>> ]_vars

\* a Fish has been cooked and the FriedFish it gave has been chopped to a FishFillet
C13_Witness ==
    /\ tpc = "chopped"
    /\ ingredient_type = <<"Fish", "FriedFish", "FishFillet">>
    /\ deleted = {1, 2}
    /\ all_ingredients = {3}

(***************************************************************************)
(* The time conversions                                                    *)
(***************************************************************************)
\* a text MM:SS:DDD: two digits of minutes, seconds 00 to 59, three digits of
\* milliseconds
WellFormed(time) ==
    /\ Len(time) = 9
    /\ time[3] = ":" /\ time[6] = ":"
    /\ \A i \in {1, 2, 4, 5, 7, 8, 9} : \E d \in 1 .. 10 : time[i] = Digits[d]
    /\ \E d \in 1 .. 6 : time[4] = Digits[d]

\* C15: ms_to_time(time_to_ms(s)) = s for every well-formed text s, and
\* time_to_ms(ms_to_time(ms)) = ms for every number of milliseconds ms >= 0
C15_TimeRoundTrip ==
    /\ WellFormed(label) => ms_to_time(time_to_ms(label)) = label
    /\ ms >= 0 => time_to_ms(ms_to_time(ms)) = ms

\* the label has been written from 100 minutes less one frame, and read back
C15_Witness ==
    /\ tpc = "time"
    /\ turn = 2
    /\ label = <<"9", "9", ":", "5", "9", ":", "9", "7", "0">>
    /\ ms = 5999985

(***************************************************************************)
(* The end of the round                                                    *)
(***************************************************************************)
\* update_game_frame starts with no time remaining
FinalTick == tpc = "wait" /\ time_to_ms(label) = 0 /\ tpc' # tpc

\* C14: the frame that starts with no time remaining stops every player, unbinds all
\* keys, clears all_ingredients and shows the score, and does nothing else: the label
\* is not written, no player moves or interacts, no station timer changes; no frame
\* and no key handler runs after it
C14_RoundOverFinal ==
    [][ /\ FinalTick =>
           /\ Len(players') = Len(players)
           /\ \A i \in 1 .. Len(players) :
                 /\ players'[i].vx = 0 /\ players'[i].vy = 0
                 /\ players'[i].x = players[i].x /\ players'[i].y = players[i].y
                 /\ players'[i].direction = players[i].direction
           /\ bindings' = {}
           /\ all_ingredients' = {}
           /\ screen' = <<"Game Over", score>>
           /\ tpc' = "over"
           /\ UNCHANGED <<label, ms, serveVars, player_ingredient, player_interact,
                          ingredient_type, ingredient_player, deleted, block_ingredient,
                          timer, to_process>>
        /\ tpc # "over" ]_vars

\* the round is over for a player who has left the spawn cell's corner and carries an
\* ingredient
C14_Witness ==
    /\ tpc = "over"
    /\ screen = <<"Game Over", score>>
    /\ \E i \in 1 .. Len(players) :
          /\ player_ingredient[i] # 0
          /\ \/ players[i].x % length # player_margin
             \/ players[i].y % length # player_margin

(***************************************************************************)
(* The timers of the processing stations                                   *)
(***************************************************************************)
\* C21: a countdown that ends is restarted: the process step of a frame leaves the timer
\* of a station that holds an ingredient above zero (counted down, or back at its
\* maximum once it has expired), so that the frames after an expiry do not invoke the
\* transformation again on the ingredient that was transformed
C21_ExpiryResetsTimer ==
    [][ \A b \in ProcessBlocks :
            (tpc = "process" /\ block_ingredient[b] # 0 /\ timer[b] > 0)
                => /\ timer'[b] > 0
                   /\ timer'[b] > timer[b] => timer'[b] = max_time(b)
                   /\ raised' = "none" ]_vars

\* C22: a frame that runs to its end takes one tick off the timer of every processing
\* station that holds an ingredient (or, the countdown over, puts the timer back to its
\* maximum), whatever the place of the station in process_blocks
C22_EveryStationAdvancesOnce ==
    [][ (tpc = "process" /\ tpc' = "wait")
            => \A b \in ProcessBlocks :
                   block_ingredient[b] # 0
                       => \/ timer'[b] = timer[b] - 1
                          \/ timer'[b] = max_time(b) ]_vars

\* C23: a player with empty hands who interacts with a processing station that holds an
\* ingredient leaves the station without ingredient and with its timer at the maximum
C23_RemovalResetsTimer ==
    InteractTurn =>
        \A b \in ProcessBlocks, ingredient \in candidates \cup {0} :
            (player_ingredient[turn] = 0 /\ block_ingredient[b] # 0)
                => LET g == interact(Objects, turn, b, ingredient, "block")
                   IN  /\ g.tm[b] = max_time(b)
                       /\ g.bi[b] = 0
                       /\ g.pi[turn] = block_ingredient[b]

\* a player with empty hands is at the chopping station, whose countdown has begun
C23_Witness ==
    /\ InteractTurn
    /\ player_ingredient[turn] = 0
    /\ block_ingredient["ChoppingBlock"] # 0
    /\ 0 < timer["ChoppingBlock"]
    /\ timer["ChoppingBlock"] < max_time("ChoppingBlock")

(***************************************************************************)
(* Deliveries that complete no order                                       *)
(***************************************************************************)
\* the stock once the delivered ingredient has been counted
Stocked == IF delivered' \in DOMAIN container
           THEN [container EXCEPT ![delivered'] = @ + 1]
           ELSE container

\* C24: a delivery after which the front order still lacks an ingredient leaves the
\* queue and the score as they were and adds one to the stock of the delivered type,
\* nothing else; the score never goes down, and a delivery adds at most 1 to it
C24_UnmetDeliveryFrame ==
    [][ /\ (\E k \in Required(current_order[1]) : Stocked[k] = 0)
              => /\ current_order' = current_order
                 /\ score' = score
                 /\ delivered' \in DOMAIN container
                 /\ container'[delivered'] = container[delivered'] + 1
                 /\ \A k \in DOMAIN container \ {delivered'} :
                       container'[k] = container[k]
        /\ score' \in {score, score + 1} ]_vars

(***************************************************************************)
(* Deliveries to Trash and to the Serving station                          *)
(***************************************************************************)
\* the objects after player.interact, the delivery to the Serving station included
Interacted(block, ingredient) ==
    LET g == interact(Objects, turn, block, ingredient, "block")
    IN  IF g.serve # 0 THEN ServingBlock_receive_ingredient(g, g.serve) ELSE g

C26_FlagConsumed ==
    [][ InteractTurn => ~ player_interact'[turn] ]_vars

(***************************************************************************)
(* The growth loop of generate_map: its end                                *)
(***************************************************************************)
\* C27: the growth loop ends on every grid, whatever the random draws; the retry counter
\* never exceeds 10, and once it has reached 10 in the retry loop the growth stops with
\* the blocks and placeholders built so far
C27_GrowthTerminates ==
    /\ <>(gpc = "roles")
    /\ [](attempts <= RetryLimit)
    /\ [][ (gpc = "retry" /\ attempts = RetryLimit)
              => (gpc' = "roles" /\ UNCHANGED <<blocks, placeholders>>) ]_vars

\* the growth has been given up after ten rejected candidates, with a cell placed before
C27_Witness ==
    /\ gpc = "roles"
    /\ attempts = RetryLimit
    /\ blocks \cup placeholders
          # InitBlocks(grid_length, grid_width) \cup InitPlaceholders(grid_length, grid_width)

(***************************************************************************)
(* generate_map: how many stations, and where                              *)
(***************************************************************************)
\* the growth loop ends by its loop condition, not by the retry abort
GrowthEnds == gpc = "grow" /\ gpc' = "roles"

\* the loop "for _ in range(7)" draws a cell for a role
RoleDrawn == gpc = "roles" /\ Len(individual_blocks') = Len(individual_blocks) + 1

\* the cell the loop has just drawn
Drawn == individual_blocks'[Len(individual_blocks')]

\* C28: when the growth loop ends without a retry abort, at least 7 stations lie on
\* interior cells, and each of the 7 mandatory roles is drawn from the interior
\* stations
C28_SevenInteriorStations ==
    [][ /\ GrowthEnds =>
              Cardinality(blocks' \cap Interior(grid_length, grid_width)) >= MandatoryBlocks
        /\ RoleDrawn => Drawn \in blocks \cap Interior(grid_length, grid_width) ]_vars

\* C28, amended: when the growth loop ends without a retry abort, at least 7 stations
\* exist, on border or interior cells, and each of the 7 mandatory roles is drawn from
\* the pool of those stations and leaves the pool
C28_SevenStations ==
    [][ /\ GrowthEnds => Cardinality(blocks') >= MandatoryBlocks
        /\ RoleDrawn => (Drawn \in blocks /\ blocks' = blocks \ {Drawn}) ]_vars

\* a map returned after a normal end of the growth, with a role on the border
C28_Witness ==
    /\ gpc = "returned"
    /\ attempts < RetryLimit
    /\ \E c \in Range(individual_blocks) : c \notin Interior(grid_length, grid_width)

\* C29: after the third miss in a row the generator makes a placement attempt
C29_ThirdMissForcesPlacement ==
    [][ (gpc = "grow" /\ attempts = MissLimit) => gpc' = "retry" ]_vars

\* C29, amended: the third miss in a row ends the growth loop, with the blocks and
\* placeholders built so far and without another placement attempt; after fewer than
\* three misses in a row the loop goes on, and the misses never count beyond three
C29_ThirdMissEndsGrowth ==
    [][ /\ (gpc = "grow" /\ attempts = MissLimit)
              => (gpc' = "roles" /\ UNCHANGED <<blocks, placeholders>>)
        /\ (gpc = "grow" /\ attempts < MissLimit) => gpc' # "roles"
        /\ gpc' = "grow" => attempts' <= MissLimit ]_vars

\* the growth has ended after three misses in a row, a cell having been placed before
C29_Witness ==
    /\ gpc = "roles"
    /\ attempts = MissLimit
    /\ blocks \cup placeholders
          # InitBlocks(grid_length, grid_width) \cup InitPlaceholders(grid_length, grid_width)

Touch(a, b) == a[1] <= b[3] /\ b[1] <= a[3] /\ a[2] <= b[4] /\ b[2] <= a[4]

\* C31: intersects(A, B) is true if and only if the two boxes overlap on both axes
\* (closed intervals), also when one box contains the other on an axis; hence
\* intersects(A, B) = intersects(B, A)
C31_IntersectsIffOverlap ==
    ret.op = "intersects"
      => /\ ret.value = Touch(objs[1], objs[2])
         /\ ret.value = intersects(objs[2], objs[1])

\* C32: object_with_min_distance returns a candidate at minimal distance between the
\* centres, the first such candidate in list order, and raises on an empty list
C32_NearestFirst ==
    [][ /\ ret'.op = "object_with_min_distance"
          => LET obj == objs[1]
                 obj_list == Tail(objs)
                 i == ret'.index
             IN  /\ i \in 1 .. Len(obj_list)
                 /\ ret'.object = obj_list[i]
                 /\ \A j \in 1 .. Len(obj_list) :
                       distance(obj, obj_list[i]) <= distance(obj, obj_list[j])
                 /\ \A j \in 1 .. i - 1 :
                       distance(obj, obj_list[j]) > distance(obj, obj_list[i])
        /\ (Len(objs) = 1 /\ raised' # raised) => (raised' = "ValueError" /\ ret'.op = "none")
        /\ (Len(objs) = 1 /\ objs' = objs) => ret'.op # "object_with_min_distance" ]_vars

\* two different candidates at the same distance, and the call has returned
C32_Witness ==
    /\ ret.op = "object_with_min_distance"
    /\ Len(objs) = 3
    /\ objs[2] # objs[3]
    /\ distance(objs[1], objs[2]) = distance(objs[1], objs[3])
    /\ distance(objs[1], objs[2]) > 0

\* a step taken between two runs of update_game_frame: a key handler
KeyEvent == ~ InFrame /\ tpc' = tpc

\* what no key handler touches: the stations, the stock, the score, the timer and the
\* ingredients' owners
KeptByKeys ==
    UNCHANGED <<mapVars, serveVars, all_blocks, bindings, screen, turn, ms, label,
                player_ingredient, ingredient_type, ingredient_player, all_ingredients,
                deleted, block_ingredient, timer, to_process>>

\* C33: the key handlers only set or clear flags (velocity, facing, interaction request):
\* they change the position of no Player and of no Item, and no Station, stock or score
C33_InputsOnlySetFlags ==
    [][ KeyEvent
          => /\ \A i \in 1 .. Len(players) :
                   players'[i].x = players[i].x /\ players'[i].y = players[i].y
             /\ held_coords' = held_coords
             /\ KeptByKeys ]_vars

\* C33, amended: the key handlers only set or clear flags, except that a direction key
\* that turns a Player at once re-draws the Item it carries in front of its new facing;
\* they change the position of no Player and of no other Item, and no Station, stock or
\* score
C33_InputsSetFlagsAndRedraw ==
    [][ KeyEvent
          => /\ \A i \in 1 .. Len(players) :
                   /\ players'[i].x = players[i].x /\ players'[i].y = players[i].y
                   /\ held_coords'[i] =
                         IF carries(i) /\ players'[i].direction # players[i].direction
                         THEN front_coords(players'[i])
                         ELSE held_coords[i]
             /\ KeptByKeys ]_vars

\* a player that went sideways in the one frame played, picked an ingredient up, and
\* has turned up since: the ingredient is drawn above it
C33_Witness ==
    /\ tpc = "wait"
    /\ \E i \in 1 .. Len(players) :
          /\ carries(i)
          /\ players[i].direction = UP
          /\ players[i].x % length # player_margin
          /\ held_coords[i] = front_coords(players[i])
          /\ held_coords[i][2] < players[i].y

\* the turn of an empty-handed player with its interact flag set, while a later player
\* of the same frame is empty-handed with its flag set too
Rivals(p, q) ==
    /\ InteractTurn
    /\ p = turn
    /\ q \in DOMAIN player_ingredient
    /\ p < q
    /\ player_ingredient[p] = 0 /\ player_ingredient[q] = 0
    /\ player_interact[q]

\* what player q can get out of the objects g: nothing once an exception has ended
\* the frame, else the outcome of any interaction it can have
Outcomes(g, q) ==
    IF g.exc # "none" THEN {g}
    ELSE { interact(g, q, t[1], t[2], t[3]) :
             t \in { u \in GameBlocks \X (ingredients_to_check(g) \cup {0})
                                    \X {"far", "ingredient", "block"} :
                        u[3] = "ingredient" => u[2] # 0 } }

\* C34: when two empty-handed players with Interact asserted target the same floor Item
\* or the same occupied Station in one tick, the earlier player gets the Item and the
\* later one gets nothing from it
C34_FirstPlayerWins ==
    \A p \in DOMAIN player_ingredient, q \in DOMAIN player_ingredient :
      Rivals(p, q) =>
        /\ \A item \in candidates, block \in GameBlocks :
              LET g == interact(Objects, p, block, item, "ingredient")
              IN  /\ g.pi[p] = item
                  /\ item \notin ingredients_to_check(g)
                  /\ \A h \in Outcomes(g, q) : h.pi[q] # item /\ h.pi[p] = item
        /\ \A block \in GameBlocks \ Crates, ingredient \in candidates \cup {0} :
              block_ingredient[block] # 0 =>
                LET item == block_ingredient[block]
                    g == interact(Objects, p, block, ingredient, "block")
                IN  /\ g.pi[p] = item
                    /\ g.bi[block] = 0
                    /\ \A h \in Outcomes(g, q) : h.pi[q] # item /\ h.pi[p] = item
                    /\ g.exc = "none" =>
                          interact(g, q, block, 0, "block").pi[q] = 0

\* the turn of the first of two such players, with an ingredient on the floor and
\* another one on a station
C34_Witness ==
    /\ Rivals(1, 2)
    /\ candidates # {}
    /\ \E block \in GameBlocks \ Crates : block_ingredient[block] # 0

\* C35: the round always ends: the remaining time is never negative, each tick that is
\* not the last takes min(15 ms, remaining) off it, every tick runs to completion and
\* schedules the next one, so that in every state the round is over or a tick is
\* scheduled or running, and the countdown goes on until the round is over
C35_RoundAlwaysEnds ==
    /\ [](time_to_ms(label) >= 0)
    /\ [][ (tpc = "wait" /\ tpc' = "players")
             => time_to_ms(label') =
                  time_to_ms(label) - (IF time_to_ms(label) < REFRESH_IN_MS
                                       THEN time_to_ms(label) ELSE REFRESH_IN_MS) ]_vars
    /\ [][ (tpc = "players" => tpc' \in {"players", "process"})
           /\ (tpc = "process" => tpc' = "wait") ]_vars
    /\ [](tpc \in {"wait", "players", "process", "over"})

\* C36: an interaction that takes an Item out of a Player's hands toward a Station leaves
\* the Item held by that Station or destroyed (Trash, Serving), never unowned
C36_PlacedItemIsOwned ==
    InteractTurn =>
      \A block \in GameBlocks, ingredient \in candidates \cup {0} :
        LET item == player_ingredient[turn]
            g == Interacted(block, ingredient)
        IN  (item # 0 /\ g.pi[turn] # item)
              => g.bi[block] = item \/ item \in g.del

\* the ingredients some station holds or some player carries
Referred ==
    ({ block_ingredient[b] : b \in DOMAIN block_ingredient }
       \cup { player_ingredient[p] : p \in DOMAIN player_ingredient }) \ {0}

\* C37: before the round is over, every Item a Station holds or a Player carries is in
\* all_ingredients and none is destroyed; the live set grows only by the one Item of a
\* crate removal
C37_LiveSetConsistent ==
    /\ [](tpc # "over" => (Referred \subseteq all_ingredients /\ Referred \cap deleted = {}))
    /\ [][ tpc' # "over"
             => \/ all_ingredients' \subseteq all_ingredients
                \/ Cardinality(all_ingredients') = Cardinality(all_ingredients)
                \/ /\ tpc = "players"
                   /\ Len(ingredient_type') = Len(ingredient_type) + 1
                   /\ all_ingredients' = all_ingredients \cup {Len(ingredient_type')}
                   /\ player_ingredient'[turn] = Len(ingredient_type')
                   /\ ingredient_type'[Len(ingredient_type')] \in {"Fish", "Lettuce", "Bread"} ]_vars
\* C38: every catalogue order can be obtained and delivered in play: in a round in which
\* a player takes the ingredient of the front order from its crate, puts it on the
\* Chopping and Cooking stations of the recipe, waits for their timers, picks up the
\* result and delivers it, with time for the longest recipe, play does not stop before
\* an order is fulfilled and the score incremented
C38_EveryOrderAchievable ==
    tpc \in {"over", "raised"} => score >= 1 /\ Len(fulfilled) >= 1

\* C39: after any sequence of movement key presses and releases (and frames), each
\* velocity component of every player is -v, 0 or +v, at most one of the two is not 0,
\* a player facing up or down has vx = 0, a player facing left or right has vy = 0, and
\* a component that is not 0 points the way the player faces
C39_VelocityAlongFacing ==
    \A i \in DOMAIN players :
        LET p == players[i]
        IN  /\ p.vx \in {- velocity, 0, velocity}
            /\ p.vy \in {- velocity, 0, velocity}
            /\ p.vx = 0 \/ p.vy = 0
            /\ p.direction \in {UP, DOWN} => p.vx = 0
            /\ p.direction \in {LEFT, RIGHT} => p.vy = 0
            /\ p.direction = UP => p.vy <= 0
            /\ p.direction = DOWN => p.vy >= 0
            /\ p.direction = LEFT => p.vx <= 0
            /\ p.direction = RIGHT => p.vx >= 0

\* a player that was moving down has turned left and moves left, away from where it
\* started
C39_Witness ==
    \E i \in DOMAIN players :
        /\ players[i].direction = LEFT
        /\ players[i].vx = - velocity
        /\ \E j \in DOMAIN players : players[j].direction = DOWN /\ players[j].vy = velocity

\* C40: player spawning terminates: the map generate_map has returned leaves at least
\* as many free floor cells as there are players, so as long as a player remains to be
\* created the spawn loop has a free cell that no other player uses to find
C40_SpawnTerminates ==
    Len(players) < controls_len => \E cell \in Cells(grid_length, grid_width) : ~ taken(cell)

====
